---- MODULE Spec2Model ----
(***************************************************************************)
(* A model of actionman.logger.Logger (src/src/actionman/logger.py) and of *)
(* the console helpers of actionman.pprint it calls.                       *)
(*                                                                         *)
(* Strings are modelled by what the code puts in them.  A dotted section   *)
(* number "1.2.1" is the sequence <<1, 2, 1>> of its components; the       *)
(* console transcript, the HTML body, standard output and the HTML file    *)
(* are sequences of lines / fragments, each a record naming what the code  *)
(* formatted into it.  Titles, messages and caller names are not modelled. *)
(***************************************************************************)
EXTENDS Integers, Sequences, FiniteSets, TLC

VARIABLES
    cfg,                      \* the arguments of Logger.__init__
    pc,                       \* "new", "ready", "failed" (__init__ raised), "exited" (sys.exit)
    next_section_num,         \* self._next_section_num
    curr_section,             \* self._curr_section, as the section number in it
    open_grouped_sections,    \* self._open_grouped_sections
    out_of_section,           \* self._out_of_section
    default_exit_code,        \* self._default_exit_code
    log_console,              \* self._log_console, line by line
    log_html,                 \* self._log_html, fragment by fragment
    stdout,                   \* what print() has written to standard output
    html_file,                \* the file at output_html_filepath
    exc,                      \* the exception the last failing call raised, "" when none
    exit_arg,                 \* the argument handed to sys.exit
    trace,                    \* the calls made so far, each with the state it left
    result,                   \* a helper's call: its arguments and what it returned
    environ,                  \* os.environ: the value of each variable, None when unset
    files,                    \* the files the workflow runner names in the environment
    FILEPATH,                 \* the _FILEPATH global of each imported module
    writers                   \* threads inside Logger._submit_html, each with its position

vars == <<cfg, pc, next_section_num, curr_section, open_grouped_sections,
          out_of_section, default_exit_code, log_console, log_html, stdout,
          html_file, exc, exit_arg, trace, result, environ, files, FILEPATH, writers>>

\* ------------------------------------------------------------------ bounds

\* SpecSections: section() calls and section_end() calls after construction.
MaxSections == 3
MaxEnds == 3
\* Spec: calls of any operation after construction.
MaxOps == 3
\* SpecFile: calls of any operation after construction.
MaxCalls == 2
\* SpecLog: section() calls and log() calls after construction.
MaxLogSections == 1
MaxLogs == 1
\* SpecFormat: the longest title, message and code, in characters.
MaxTextLen == 2
\* SpecDirective: the largest line and column number.
MaxLineNo == 1
\* SpecIO: read_environment_variable calls.
MaxReads == 1
\* SpecWrite: environment_variable.write and step_output.write calls.
MaxWrites == 1
\* SpecSummary: step_summary calls.
MaxSummaryOps == 2
\* SpecCritical: section() calls and critical() calls, step by step.
MaxCriticalSections == 1
MaxCriticals == 1
\* SpecWriters: write cycles of the two threads together.
MaxWriterCycles == 3
\* SpecArgs: calls of read_function_args_from_environment_variables.
MaxArgReads == 1

\* ------------------------------------------------------------ Python values

\* An optional argument: None is the empty tuple, a value v is <<v>>.
None == <<>>
Some(v) == <<v>>
IsNone(o) == o = <<>>
Val(o) == o[1]

\* Python truthiness of an optional integer (None and 0 are falsy).
Truthy(o) == ~IsNone(o) /\ Val(o) # 0

Min(a, b) == IF a < b THEN a ELSE b

Front(s) == SubSeq(s, 1, Len(s) - 1)

\* ------------------------------------------------------------------ config

\* exit_code_critical as handed to __init__: an int, None, or another type.
ExitCodeArgs ==
    { [type |-> "None", val |-> 0],
      [type |-> "int", val |-> 1],
      [type |-> "int", val |-> 0],
      [type |-> "int", val |-> -1],
      [type |-> "str", val |-> 0] }

InitialSectionNumbers == {1}

Configs ==
    [ realtime_output : BOOLEAN,
      github_console : BOOLEAN,
      console_print_debug : BOOLEAN,
      output_html_filepath : BOOLEAN,      \* TRUE: a path is given
      initial_section_number : InitialSectionNumbers,
      exit_code_critical : ExitCodeArgs ]

\* ------------------------------------------------------------------ pprint

\* github_group_start(title, pprint=False): "::group::{title}"
github_group_start(title) == [title EXCEPT !.prefix = "::group::"]

\* github_group_end(pprint=False): "::endgroup::"
github_group_end == [kind |-> "endgroup", level |-> "", h |-> 0, num |-> <<>>, prefix |-> ""]

\* github_log(message_type, message, title): the directive
\* "::{message_type} title={title}::{message}"; for "debug" the title is
\* ignored and the message keeps its text behind "::debug:: ".
github_log(message_type, message, title) ==
    IF message_type = "debug"
    THEN [message EXCEPT !.prefix = "::debug::"]
    ELSE [kind |-> "directive", level |-> message_type, h |-> 0, num |-> title.num,
          prefix |-> title.prefix]

\* ------------------------------------------------------------- Logger state

\* The mutable part of the Logger and of its environment, as one value the
\* methods below transform.
self ==
    [ next_section_num |-> next_section_num,
      curr_section |-> curr_section,
      open_grouped_sections |-> open_grouped_sections,
      out_of_section |-> out_of_section,
      log_console |-> log_console,
      log_html |-> log_html,
      stdout |-> stdout,
      html_file |-> html_file ]

Commit(s) ==
    /\ next_section_num' = s.next_section_num
    /\ curr_section' = s.curr_section
    /\ open_grouped_sections' = s.open_grouped_sections
    /\ out_of_section' = s.out_of_section
    /\ log_console' = s.log_console
    /\ log_html' = s.log_html
    /\ stdout' = s.stdout
    /\ html_file' = s.html_file

\* print(text, flush=True)
print(s, text) == [s EXCEPT !.stdout = Append(@, text)]

\* self._html_file_end = "</body>\n</html>\n"
html_file_end == << [kind |-> "</body>", level |-> "", h |-> 0, num |-> <<>>],
                    [kind |-> "</html>", level |-> "", h |-> 0, num |-> <<>>] >>

\* self._html_num_chars_at_end one character short.
html_num_chars_short == 1 - Len(html_file_end)

\* self._html_num_chars_at_end = -len(self._html_file_end)
html_num_chars_at_end == 0 - Len(html_file_end)

\* html_intro followed by "</head>\n<body>\n"
html_head == << [kind |-> "<head>", level |-> "", h |-> 0, num |-> <<>>],
                [kind |-> "<body>", level |-> "", h |-> 0, num |-> <<>>] >>

\* file.seek(offset, 2); file.write(data) on a file opened 'rb+': data
\* overwrites the content from the position on and extends the file.
seek_end_write(content, offset, data) ==
    LET pos == Len(content) + offset
        after == pos + Len(data)
    IN SubSeq(content, 1, pos) \o data
         \o (IF after < Len(content) THEN SubSeq(content, after + 1, Len(content)) ELSE <<>>)

\* Logger._submit_console recording only what it echoes.
submit_console_echoed_only(s, text, is_debug) ==
    IF cfg.realtime_output
       /\ (~is_debug \/ cfg.github_console \/ cfg.console_print_debug)
    THEN print([s EXCEPT !.log_console = Append(@, text)], text)
    ELSE s

\* Logger._submit_console with the annotation flag left out of the echo test.
submit_console_no_github(s, text, is_debug) ==
    LET s1 == [s EXCEPT !.log_console = Append(@, text)]
    IN IF cfg.realtime_output /\ (~is_debug \/ cfg.console_print_debug)
       THEN print(s1, text)
       ELSE s1

\* Logger._submit_console
submit_console(s, text, is_debug) ==
    LET s1 == [s EXCEPT !.log_console = Append(@, text)]
    IN IF cfg.realtime_output
          /\ (~is_debug \/ cfg.github_console \/ cfg.console_print_debug)
       THEN print(s1, text)
       ELSE s1

\* Logger._submit_html assigning the fragment (=) where the code appends (+=).
submit_html_assigns(s, html) ==
    LET s1 == [s EXCEPT !.log_html = <<html>>]
    IN IF cfg.realtime_output /\ cfg.output_html_filepath
       THEN [s1 EXCEPT !.html_file.content =
                seek_end_write(@, html_num_chars_at_end, <<html>> \o html_file_end)]
       ELSE s1

\* Logger._submit_html
submit_html(s, html) ==
    LET s1 == [s EXCEPT !.log_html = Append(@, html)]
    IN IF cfg.realtime_output /\ cfg.output_html_filepath
       THEN [s1 EXCEPT !.html_file.content =
                seek_end_write(@, html_num_chars_at_end, <<html>> \o html_file_end)]
       ELSE s1

\* Logger._submit
submit(s, console, file, is_debug) ==
    submit_html(submit_console(s, console, is_debug), file)

\* Logger.console_log
console_log == log_console

\* Logger.html_log
html_log == log_html \o html_file_end

\* Logger._format_entry: (output_console, output_html, github_annotation_msg)
format_entry(level) ==
    [ console |-> [kind |-> "entry", level |-> level, h |-> 0, num |-> <<>>, prefix |-> ""],
      html |-> [kind |-> "<ul>", level |-> level, h |-> 0, num |-> <<>>],
      annotation |-> [kind |-> "message", level |-> level] ]

\* Strings are sequences of characters; the ones a title, a message and a
\* code block are made of.
TitleChars == {"t"}
MessageChars == {"x"}
CodeChars == {"c", "\n"}

\* The strings of at most n characters over chars.
Texts(chars, n) == UNION {[1..m -> chars] : m \in 0..n}

\* self._symbol_status[level]
symbol_status(level) ==
    CASE level = "debug" -> "debug_symbol"
      [] level = "info" -> "info_symbol"
      [] level = "notice" -> "notice_symbol"
      [] level = "warning" -> "warning_symbol"
      [] level = "error" -> "error_symbol"
      [] level = "critical" -> "critical_symbol"

\* self._style_status[level]: the control sequence of the level's title style.
style_status(level) ==
    CASE level = "debug" -> "sgr(debug)"
      [] level = "info" -> "sgr(info)"
      [] level = "notice" -> "sgr(notice)"
      [] level = "warning" -> "sgr(warning)"
      [] level = "error" -> "sgr(error)"
      [] level = "critical" -> "sgr(critical)"

\* markitup.sgr.format(text, control_sequence)
sgr_format(text, control_sequence) == <<control_sequence>> \o text \o <<"sgr(reset)">>

\* markitup.html.ul([content])
html_ul(content) == <<"<ul>", "<li>">> \o content \o <<"</li>", "</ul>">>

\* Logger._format_entry putting the title segment in whether there is a title
\* or not.
format_entry_always_titled(level, message, title, code) ==
    LET symbol == symbol_status(level)
        title_console == sgr_format(title, style_status(level)) \o <<": ">>
        title_html == <<"<b>">> \o title \o <<"</b>", ": ">>
        title_annotation == title \o <<": ">>
        code_console == IF code # <<>> THEN <<"\n">> \o code ELSE <<>>
        code_html == IF code # <<>> THEN <<"<pre>">> \o code \o <<"</pre>">> ELSE <<>>
    IN [ output_console |-> <<symbol, " ">> \o title_console \o message \o code_console,
         output_html |-> html_ul(<<symbol, " ">> \o title_html \o message \o code_html),
         github_annotation_msg |-> title_annotation \o message ]

\* Logger._format_entry(level, message, title, code), character by character:
\* (output_console, output_html, github_annotation_msg)
format_entry_output(level, message, title, code) ==
    LET symbol == symbol_status(level)
        title_console == IF title # <<>>
                         THEN sgr_format(title, style_status(level)) \o <<": ">>
                         ELSE <<>>
        title_html == IF title # <<>> THEN <<"<b>">> \o title \o <<"</b>", ": ">> ELSE <<>>
        title_annotation == IF title # <<>> THEN title \o <<": ">> ELSE <<>>
        code_console == IF code # <<>> THEN <<"\n">> \o code ELSE <<>>
        code_html == IF code # <<>> THEN <<"<pre>">> \o code \o <<"</pre>">> ELSE <<>>
    IN [ output_console |-> <<symbol, " ">> \o title_console \o message \o code_console,
         output_html |-> html_ul(<<symbol, " ">> \o title_html \o message \o code_html),
         github_annotation_msg |-> title_annotation \o message ]

\* Logger.section counting and marking groups whether annotation emission is
\* on or off.
section_groups_anyway(s, group) ==
    LET section_level == Min(Len(s.next_section_num), 6)
        section_num == s.next_section_num
        s1 == [s EXCEPT !.curr_section = section_num]
        output_html == [kind |-> "<h>", level |-> "", h |-> section_level, num |-> section_num]
        heading_console == [kind |-> "heading", level |-> "", h |-> section_level,
                            num |-> section_num, prefix |-> ""]
        starts == group /\ s.open_grouped_sections = 0
        output_console == IF starts THEN github_group_start(heading_console)
                          ELSE heading_console
        s2 == IF group \/ s.open_grouped_sections # 0
              THEN [s1 EXCEPT !.open_grouped_sections = @ + 1]
              ELSE s1
        s3 == submit(s2, output_console, output_html, FALSE)
    IN [s3 EXCEPT !.next_section_num = Append(@, 1)]

\* Logger.section opening a group for every group=True call, one being open
\* or not.
section_regroups(s, group) ==
    LET section_level == Min(Len(s.next_section_num), 6)
        section_num == s.next_section_num
        s1 == [s EXCEPT !.curr_section = section_num]
        output_html == [kind |-> "<h>", level |-> "", h |-> section_level, num |-> section_num]
        heading_console == [kind |-> "heading", level |-> "", h |-> section_level,
                            num |-> section_num, prefix |-> ""]
        starts == cfg.github_console /\ group
        output_console == IF starts THEN github_group_start(heading_console)
                          ELSE heading_console
        s2 == IF cfg.github_console /\ (group \/ s.open_grouped_sections # 0)
              THEN [s1 EXCEPT !.open_grouped_sections = @ + 1]
              ELSE s1
        s3 == submit(s2, output_console, output_html, FALSE)
    IN [s3 EXCEPT !.next_section_num = Append(@, 1)]

\* Logger.section
section(s, group) ==
    LET section_level == Min(Len(s.next_section_num), 6)
        section_num == s.next_section_num
        s1 == [s EXCEPT !.curr_section = section_num]
        output_html == [kind |-> "<h>", level |-> "", h |-> section_level, num |-> section_num]
        heading_console == [kind |-> "heading", level |-> "", h |-> section_level,
                            num |-> section_num, prefix |-> ""]
        starts == cfg.github_console /\ group /\ s.open_grouped_sections = 0
        output_console == IF starts THEN github_group_start(heading_console)
                          ELSE heading_console
        s2 == IF cfg.github_console /\ (group \/ s.open_grouped_sections # 0)
              THEN [s1 EXCEPT !.open_grouped_sections = @ + 1]
              ELSE s1
        s3 == submit(s2, output_console, output_html, FALSE)
    IN [s3 EXCEPT !.next_section_num = Append(@, 1)]

\* Logger.section_end incrementing the last counter before the pop.
section_end_bumps_first(s) ==
    LET s1 == IF s.open_grouped_sections # 0
              THEN LET t == [s EXCEPT !.open_grouped_sections = @ - 1]
                   IN IF t.open_grouped_sections = 0
                      THEN submit_console(t, github_group_end, FALSE)
                      ELSE t
              ELSE s
        s2 == [s1 EXCEPT !.next_section_num[Len(s1.next_section_num)] = @ + 1,
                         !.out_of_section = TRUE]
    IN IF Len(s2.next_section_num) > 2
       THEN [s2 EXCEPT !.next_section_num = Front(@)]
       ELSE s2

\* Logger.section_end popping the root's counter too (len > 1).
section_end_pops_root(s) ==
    LET s1 == IF s.open_grouped_sections # 0
              THEN LET t == [s EXCEPT !.open_grouped_sections = @ - 1]
                   IN IF t.open_grouped_sections = 0
                      THEN submit_console(t, github_group_end, FALSE)
                      ELSE t
              ELSE s
        s2 == IF Len(s1.next_section_num) > 1
              THEN [s1 EXCEPT !.next_section_num = Front(@)]
              ELSE s1
    IN [s2 EXCEPT !.next_section_num[Len(s2.next_section_num)] = @ + 1,
                  !.out_of_section = TRUE]

\* Logger.section_end emitting the end marker for every grouped section closed.
section_end_marks_each(s) ==
    LET s1 == IF s.open_grouped_sections # 0
              THEN submit_console([s EXCEPT !.open_grouped_sections = @ - 1],
                                  github_group_end, FALSE)
              ELSE s
        s2 == IF Len(s1.next_section_num) > 2
              THEN [s1 EXCEPT !.next_section_num = Front(@)]
              ELSE s1
    IN [s2 EXCEPT !.next_section_num[Len(s2.next_section_num)] = @ + 1,
                  !.out_of_section = TRUE]

\* Logger.section_end
section_end(s) ==
    LET s1 == IF s.open_grouped_sections # 0
              THEN LET t == [s EXCEPT !.open_grouped_sections = @ - 1]
                   IN IF t.open_grouped_sections = 0
                      THEN submit_console(t, github_group_end, FALSE)
                      ELSE t
              ELSE s
        s2 == IF Len(s1.next_section_num) > 2
              THEN [s1 EXCEPT !.next_section_num = Front(@)]
              ELSE s1
    IN [s2 EXCEPT !.next_section_num[Len(s2.next_section_num)] = @ + 1,
                  !.out_of_section = TRUE]

\* Logger.debug
debug(s) ==
    LET e == format_entry("debug")
        output_console == IF cfg.github_console
                          THEN github_log("debug", e.console, [num |-> <<>>, prefix |-> ""])
                          ELSE e.console
    IN submit(s, output_console, e.html, TRUE)

\* Logger.info
info(s) ==
    LET e == format_entry("info")
    IN submit(s, e.console, e.html, FALSE)

\* Logger.notice announcing itself to the CI host as a warning.
notice_as_warning(s) ==
    LET e == format_entry("notice")
        s1 == submit(s, e.console, e.html, FALSE)
    IN IF cfg.github_console
       THEN print(s1, github_log("warning", e.annotation,
                                 [num |-> s1.curr_section, prefix |-> ""]))
       ELSE s1

\* Logger.notice
notice(s) ==
    LET e == format_entry("notice")
        s1 == submit(s, e.console, e.html, FALSE)
    IN IF cfg.github_console
       THEN print(s1, github_log("notice", e.annotation,
                                 [num |-> s1.curr_section, prefix |-> ""]))
       ELSE s1

\* Logger.warning
warning(s) ==
    LET e == format_entry("warning")
        s1 == submit(s, e.console, e.html, FALSE)
    IN IF cfg.github_console
       THEN print(s1, github_log("warning", e.annotation,
                                 [num |-> s1.curr_section, prefix |-> ""]))
       ELSE s1

\* Logger.error
error(s) ==
    LET e == format_entry("error")
        s1 == submit(s, e.console, e.html, FALSE)
    IN IF cfg.github_console
       THEN print(s1, github_log("error", e.annotation,
                                 [num |-> s1.curr_section, prefix |-> ""]))
       ELSE s1

\* Logger._caller_name(stack_up): the function of frame stack[2 + stack_up],
\* where stack[0] is _caller_name itself.
caller_name(stack, stack_up) == stack[2 + stack_up + 1]

\* Logger.critical ending every open group, whether it exits or not.
critical_pops_groups(s, sys_exit, exit_code) ==
    LET e == format_entry("critical")
        s1 == submit(s, e.console, e.html, FALSE)
        exits == IF IsNone(sys_exit) THEN ~IsNone(default_exit_code) ELSE Val(sys_exit)
        s2 == IF s1.open_grouped_sections # 0
              THEN submit_console([s1 EXCEPT !.open_grouped_sections = 0],
                                  github_group_end, FALSE)
              ELSE s1
        s3 == IF cfg.github_console
              THEN print(s2, github_log("error", e.annotation,
                                        [num |-> s2.curr_section, prefix |-> "FATAL ERROR"]))
              ELSE s2
    IN [ state |-> s3,
         exits |-> exits,
         arg |-> IF Truthy(exit_code) THEN exit_code ELSE default_exit_code,
         caller |-> caller_name(<<"_caller_name", "critical", "main">>, 0) ]

\* Logger.critical writing its entry to the console transcript only.
critical_console_only(s, sys_exit, exit_code) ==
    LET e == format_entry("critical")
        s1 == submit_console(s, e.console, FALSE)
        exits == IF IsNone(sys_exit) THEN ~IsNone(default_exit_code) ELSE Val(sys_exit)
        s2 == IF exits /\ s1.open_grouped_sections # 0
              THEN submit_console(s1, github_group_end, FALSE)
              ELSE s1
        s3 == IF cfg.github_console
              THEN print(s2, github_log("error", e.annotation,
                                        [num |-> s2.curr_section, prefix |-> "FATAL ERROR"]))
              ELSE s2
    IN [ state |-> s3,
         exits |-> exits,
         arg |-> IF Truthy(exit_code) THEN exit_code ELSE default_exit_code ]

\* Logger.critical closing an open group whether it exits or not.
critical_always_closes(s, sys_exit, exit_code) ==
    LET e == format_entry("critical")
        s1 == submit(s, e.console, e.html, FALSE)
        exits == IF IsNone(sys_exit) THEN ~IsNone(default_exit_code) ELSE Val(sys_exit)
        s2 == IF s1.open_grouped_sections # 0
              THEN submit_console(s1, github_group_end, FALSE)
              ELSE s1
        s3 == IF cfg.github_console
              THEN print(s2, github_log("error", e.annotation,
                                        [num |-> s2.curr_section, prefix |-> "FATAL ERROR"]))
              ELSE s2
    IN [ state |-> s3,
         exits |-> exits,
         arg |-> IF Truthy(exit_code) THEN exit_code ELSE default_exit_code ]

\* Logger.critical: the state it leaves, whether it calls sys.exit and with
\* which argument.
critical(s, sys_exit, exit_code) ==
    LET e == format_entry("critical")
        s1 == submit(s, e.console, e.html, FALSE)
        exits == IF IsNone(sys_exit) THEN ~IsNone(default_exit_code) ELSE Val(sys_exit)
        s2 == IF exits /\ s1.open_grouped_sections # 0
              THEN submit_console(s1, github_group_end, FALSE)
              ELSE s1
        s3 == IF cfg.github_console
              THEN print(s2, github_log("error", e.annotation,
                                        [num |-> s2.curr_section, prefix |-> "FATAL ERROR"]))
              ELSE s2
    IN [ state |-> s3,
         exits |-> exits,
         arg |-> IF Truthy(exit_code) THEN exit_code ELSE default_exit_code,
         caller |-> caller_name(<<"_caller_name", "critical", "main">>, 0) ]

\* class LogLevel(Enum): the values of its members.
LevelNames == {"debug", "info", "notice", "warning", "error", "critical"}

\* LogLevel(value) accepting any string (an unknown one as INFO).
LogLevel_accepts_any(value) ==
    [exc |-> "", value |-> IF value \in LevelNames THEN value ELSE "info"]

\* LogLevel(value): the member with that value, ValueError if there is none.
LogLevel(value) ==
    IF value \in LevelNames
    THEN [exc |-> "", value |-> value]
    ELSE [exc |-> "ValueError", value |-> ""]

\* The level argument of log(): a LogLevel member or a string.
LevelArgs ==
    [type : {"LogLevel"}, value : LevelNames]
        \cup [type : {"str"}, value : LevelNames \cup {"DEBUG", "fatal"}]

\* Logger.log called from main, leaving sys_exit and exit_code out of what it
\* forwards to critical().
log_forgets_exit_arguments(s, level, sys_exit, exit_code) ==
    LET lv == IF level.type = "LogLevel"
              THEN [exc |-> "", value |-> level.value]
              ELSE LogLevel(level.value)
        returns(s1) == [exc |-> "", state |-> s1, exits |-> FALSE, arg |-> None,
                        caller |-> ""]
    IN IF lv.exc # ""
       THEN [exc |-> lv.exc, state |-> s, exits |-> FALSE, arg |-> None, caller |-> ""]
       ELSE CASE lv.value = "critical" ->
                    LET r == critical(s, None, None)
                    IN [exc |-> "", state |-> r.state, exits |-> r.exits, arg |-> r.arg,
                        caller |-> caller_name(<<"_caller_name", "critical", "log", "main">>,
                                               0 + 1)]
              [] lv.value = "debug" -> returns(debug(s))
              [] lv.value = "info" -> returns(info(s))
              [] lv.value = "notice" -> returns(notice(s))
              [] lv.value = "warning" -> returns(warning(s))
              [] lv.value = "error" -> returns(error(s))

\* Logger.log(level, message, sys_exit, exit_code, stack_up=0) called from
\* main: the exception it raises, the state it leaves, whether it calls
\* sys.exit and with which argument, and the caller critical() names.
log(s, level, sys_exit, exit_code) ==
    LET lv == IF level.type = "LogLevel"
              THEN [exc |-> "", value |-> level.value]
              ELSE LogLevel(level.value)
        returns(s1) == [exc |-> "", state |-> s1, exits |-> FALSE, arg |-> None,
                        caller |-> ""]
    IN IF lv.exc # ""
       THEN [exc |-> lv.exc, state |-> s, exits |-> FALSE, arg |-> None, caller |-> ""]
       ELSE CASE lv.value = "critical" ->
                    LET r == critical(s, sys_exit, exit_code)
                    IN [exc |-> "", state |-> r.state, exits |-> r.exits, arg |-> r.arg,
                        caller |-> caller_name(<<"_caller_name", "critical", "log", "main">>,
                                               0 + 1)]
              [] lv.value = "debug" -> returns(debug(s))
              [] lv.value = "info" -> returns(info(s))
              [] lv.value = "notice" -> returns(notice(s))
              [] lv.value = "warning" -> returns(warning(s))
              [] lv.value = "error" -> returns(error(s))

\* ------------------------------------------------------------------ trace

\* What a call left behind: its arguments, the Logger's position after it and
\* how long each output was after it.
Snap(op, group, sys_exit, exit_code, s, pc1) ==
    [ op |-> op, group |-> group, sys_exit |-> sys_exit, exit_code |-> exit_code,
      path |-> s.next_section_num, curr |-> s.curr_section,
      groups |-> s.open_grouped_sections,
      con |-> Len(s.log_console), html |-> Len(s.log_html), out |-> Len(s.stdout),
      pc |-> pc1, level |-> "" ]

Count(op) == Cardinality({k \in 1..Len(trace) : trace[k].op = op})

\* ------------------------------------------------------------------ actions

\* No helper has been called.
NoResult == [fn |-> ""]

\* The environment variables the package reads: the three the workflow runner
\* sets and one input variable.
EnvNames == {"GITHUB_ENV", "GITHUB_OUTPUT", "GITHUB_STEP_SUMMARY", "INPUT"}

\* The modules with a _FILEPATH global and the variable each takes it from.
Modules == {"environment_variable", "step_output", "step_summary"}
EnvVarOf(module) ==
    CASE module = "environment_variable" -> "GITHUB_ENV"
      [] module = "step_output" -> "GITHUB_OUTPUT"
      [] module = "step_summary" -> "GITHUB_STEP_SUMMARY"

\* The files the runner's variables name when set.
Paths == {"/env", "/output", "/summary"}

NoFile == [exists |-> FALSE, content |-> <<>>]
NotImported == [imported |-> FALSE, path |-> None]

\* Nothing outside the Logger is involved: no variable set, no file, no module
\* imported, no thread.
NothingOutside ==
    /\ environ = [name \in EnvNames |-> None]
    /\ files = [path \in Paths |-> NoFile]
    /\ FILEPATH = [module \in Modules |-> NotImported]
    /\ writers = <<>>

Init ==
    /\ cfg \in Configs
    /\ pc = "new"
    /\ next_section_num = <<>>
    /\ curr_section = <<>>
    /\ open_grouped_sections = 0
    /\ out_of_section = FALSE
    /\ default_exit_code = None
    /\ log_console = <<>>
    /\ log_html = <<>>
    /\ stdout = <<>>
    /\ html_file = [exists |-> FALSE, content |-> <<>>]
    /\ exc = ""
    /\ exit_arg = None
    /\ trace = <<>>
    /\ result = NoResult
    /\ NothingOutside

\* Path.touch emptying the file it finds.
touch_truncates(file) == [exists |-> TRUE, content |-> <<>>]

\* Path.touch(exist_ok=True): the file exists afterwards, its content kept.
touch(file) == [file EXCEPT !.exists = TRUE]

\* open(path, 'a') in place of 'w': the data goes behind what the file holds.
open_a_write(file, data) == [exists |-> TRUE, content |-> file.content \o data]

\* open(path, 'w') and f.write(data): the file holds data and nothing else.
open_w_write(file, data) == [exists |-> TRUE, content |-> data]

\* The check of exit_code_critical: the exception it raises, "" when none.
exit_code_error(code) ==
    IF code.type = "int"
    THEN (IF code.val <= 0 THEN "ValueError" ELSE "")
    ELSE (IF code.type # "None" THEN "TypeError" ELSE "")

\* Logger.__init__ creating the HTML file before it checks exit_code_critical.
logger_init_touches_first(file, out) ==
    LET code == cfg.exit_code_critical
        raised == exit_code_error(code)
        touched == IF cfg.output_html_filepath THEN touch(file) ELSE file
        s0 == [ next_section_num |-> <<cfg.initial_section_number>>,
                curr_section |-> <<>>,
                open_grouped_sections |-> 0,
                out_of_section |-> FALSE,
                log_console |-> <<>>,
                log_html |-> <<>>,
                stdout |-> out,
                html_file |-> touched ]
        s1 == [s0 EXCEPT !.log_html = html_head]
        s2 == IF cfg.realtime_output /\ cfg.output_html_filepath
              THEN [s1 EXCEPT !.html_file = open_w_write(@, s1.log_html \o html_file_end)]
              ELSE s1
    IN IF raised # ""
       THEN [exc |-> raised, state |-> s0, default_exit_code |-> None]
       ELSE [ exc |-> "", state |-> section(s2, FALSE),
              default_exit_code |-> IF code.type = "int" THEN Some(code.val) ELSE None ]

\* Logger.__init__ numbering the root from 1 whatever initial_section_number is.
logger_init_numbers_from_one(file, out) ==
    LET code == cfg.exit_code_critical
        raised == exit_code_error(code)
        s0 == [ next_section_num |-> <<1>>,
                curr_section |-> <<>>,
                open_grouped_sections |-> 0,
                out_of_section |-> FALSE,
                log_console |-> <<>>,
                log_html |-> <<>>,
                stdout |-> out,
                html_file |-> file ]
        s1 == [s0 EXCEPT !.html_file = IF cfg.output_html_filepath THEN touch(@) ELSE @,
                         !.log_html = html_head]
        s2 == IF cfg.realtime_output /\ cfg.output_html_filepath
              THEN [s1 EXCEPT !.html_file = open_w_write(@, s1.log_html \o html_file_end)]
              ELSE s1
    IN IF raised # ""
       THEN [exc |-> raised, state |-> s0, default_exit_code |-> None]
       ELSE [ exc |-> "", state |-> section(s2, FALSE),
              default_exit_code |-> IF code.type = "int" THEN Some(code.val) ELSE None ]

\* Logger.__init__, given the file at output_html_filepath and standard output
\* as they are: the exception it raises ("" when none), the Logger and its
\* environment as it leaves them, and self._default_exit_code.
logger_init(file, out) ==
    LET code == cfg.exit_code_critical
        raised == exit_code_error(code)
        s0 == [ next_section_num |-> <<cfg.initial_section_number>>,
                curr_section |-> <<>>,
                open_grouped_sections |-> 0,
                out_of_section |-> FALSE,
                log_console |-> <<>>,
                log_html |-> <<>>,
                stdout |-> out,
                html_file |-> file ]
        s1 == [s0 EXCEPT !.html_file = IF cfg.output_html_filepath THEN touch(@) ELSE @,
                         !.log_html = html_head]
        s2 == IF cfg.realtime_output /\ cfg.output_html_filepath
              THEN [s1 EXCEPT !.html_file = open_w_write(@, s1.log_html \o html_file_end)]
              ELSE s1
    IN IF raised # ""
       THEN [exc |-> raised, state |-> s0, default_exit_code |-> None]
       ELSE [ exc |-> "", state |-> section(s2, FALSE),
              default_exit_code |-> IF code.type = "int" THEN Some(code.val) ELSE None ]

\* Logger(...): when __init__ raises there is no Logger, and only what it did
\* to its environment remains.
Construct ==
    /\ pc = "new"
    /\ LET r == logger_init(html_file, stdout)
       IN IF r.exc # ""
          THEN /\ exc' = r.exc
               /\ pc' = "failed"
               /\ html_file' = r.state.html_file
               /\ stdout' = r.state.stdout
               /\ UNCHANGED <<cfg, next_section_num, curr_section, open_grouped_sections,
                              out_of_section, default_exit_code, log_console, log_html,
                              exit_arg, trace, result, environ, files, FILEPATH, writers>>
          ELSE /\ default_exit_code' = r.default_exit_code
               /\ Commit(r.state)
               /\ pc' = "ready"
               /\ trace' = Append(trace, Snap("__init__", FALSE, None, None, r.state, "ready"))
               /\ UNCHANGED <<cfg, exc, exit_arg, result, environ, files, FILEPATH, writers>>

\* Logger.section(title, group)
Section(group) ==
    /\ pc = "ready"
    /\ LET s1 == section(self, group)
       IN /\ Commit(s1)
          /\ trace' = Append(trace, Snap("section", group, None, None, s1, pc))
    /\ UNCHANGED <<cfg, pc, default_exit_code, exc, exit_arg, result, environ, files, FILEPATH, writers>>

\* Logger.section_end()
SectionEnd ==
    /\ pc = "ready"
    /\ LET s1 == section_end(self)
       IN /\ Commit(s1)
          /\ trace' = Append(trace, Snap("section_end", FALSE, None, None, s1, pc))
    /\ UNCHANGED <<cfg, pc, default_exit_code, exc, exit_arg, result, environ, files, FILEPATH, writers>>

\* A level method that returns: debug, info, notice, warning, error.
Returns(op, s1) ==
    /\ pc = "ready"
    /\ Commit(s1)
    /\ trace' = Append(trace, Snap(op, FALSE, None, None, s1, pc))
    /\ UNCHANGED <<cfg, pc, default_exit_code, exc, exit_arg, result, environ, files, FILEPATH, writers>>

\* Logger.debug(message)
Debug == Returns("debug", debug(self))

\* Logger.info(message)
Info == Returns("info", info(self))

\* Logger.notice(message)
Notice == Returns("notice", notice(self))

\* Logger.warning(message)
Warning == Returns("warning", warning(self))

\* Logger.error(message)
Error == Returns("error", error(self))

\* sys.exit(arg): the status the process ends with (None ends it with 0).
ExitStatus(arg) == IF IsNone(arg) THEN 0 ELSE Val(arg)

\* The arguments critical() is called with.
SysExitArgs == {None, Some(TRUE), Some(FALSE)}
ExitCodes == {None, Some(0), Some(2)}

\* Logger.critical(message, sys_exit, exit_code)
Critical(sys_exit, exit_code) ==
    /\ pc = "ready"
    /\ LET r == critical(self, sys_exit, exit_code)
           pc1 == IF r.exits THEN "exited" ELSE "ready"
       IN /\ Commit(r.state)
          /\ pc' = pc1
          /\ exit_arg' = (IF r.exits THEN r.arg ELSE exit_arg)
          /\ trace' = Append(trace, Snap("critical", FALSE, sys_exit, exit_code, r.state, pc1))
    /\ UNCHANGED <<cfg, default_exit_code, exc, result, environ, files, FILEPATH, writers>>

\* Logger.log(level, message, sys_exit, exit_code); the levels other than
\* critical are called with the default sys_exit and exit_code.
Log(level, sys_exit, exit_code) ==
    /\ pc = "ready"
    /\ level.value # "critical" => IsNone(sys_exit) /\ IsNone(exit_code)
    /\ LET r == log(self, level, sys_exit, exit_code)
           pc1 == IF r.exits THEN "exited" ELSE "ready"
       IN /\ Commit(r.state)
          /\ pc' = pc1
          /\ exc' = r.exc
          /\ exit_arg' = (IF r.exits THEN r.arg ELSE exit_arg)
          /\ result' = [fn |-> "log", caller |-> r.caller]
          /\ trace' = Append(trace, [Snap("log", FALSE, sys_exit, exit_code, r.state, pc1)
                                        EXCEPT !.level = level.value])
    /\ UNCHANGED <<cfg, default_exit_code, environ, files, FILEPATH, writers>>

\* ------------------------------------------------------------ specifications

NextSections ==
    \/ Construct
    \/ \E group \in BOOLEAN : Count("section") < MaxSections /\ Section(group)
    \/ Count("section_end") < MaxEnds /\ SectionEnd

SpecSections == Init /\ [][NextSections]_vars

\* The Logger constructed with initial_section_number 0, 1 or 2.
InitRoot ==
    /\ cfg \in { [c EXCEPT !.initial_section_number = n] :
                    c \in {d \in Configs : /\ d.exit_code_critical.type = "None"
                                           /\ ~d.console_print_debug},
                    n \in {0, 1, 2} }
    /\ pc = "new"
    /\ next_section_num = <<>>
    /\ curr_section = <<>>
    /\ open_grouped_sections = 0
    /\ out_of_section = FALSE
    /\ default_exit_code = None
    /\ log_console = <<>>
    /\ log_html = <<>>
    /\ stdout = <<>>
    /\ html_file = [exists |-> FALSE, content |-> <<>>]
    /\ exc = ""
    /\ exit_arg = None
    /\ trace = <<>>
    /\ result = NoResult
    /\ NothingOutside

SpecRoot == InitRoot /\ [][NextSections]_vars

\* Calls made after construction.
Calls == Len(trace) - 1

Next ==
    \/ Construct
    \/ \E group \in BOOLEAN : Calls < MaxOps /\ Section(group)
    \/ Calls < MaxOps /\ SectionEnd
    \/ Calls < MaxOps /\ Debug
    \/ Calls < MaxOps /\ Info
    \/ Calls < MaxOps /\ Notice
    \/ Calls < MaxOps /\ Warning
    \/ Calls < MaxOps /\ Error
    \/ \E sys_exit \in SysExitArgs, exit_code \in ExitCodes :
          Calls < MaxOps /\ Critical(sys_exit, exit_code)

Spec == Init /\ [][Next]_vars

\* A file a previous run left at output_html_filepath: a complete document.
StaleFragment == [kind |-> "<ul>", level |-> "stale", h |-> 0, num |-> <<>>]
StaleFile == html_head \o <<StaleFragment, StaleFragment, StaleFragment>> \o html_file_end

\* The file at output_html_filepath before the Logger is constructed.
FilesBefore == { [exists |-> FALSE, content |-> <<>>],
                 [exists |-> TRUE, content |-> StaleFile] }

InitFile ==
    /\ cfg \in Configs
    /\ pc = "new"
    /\ next_section_num = <<>>
    /\ curr_section = <<>>
    /\ open_grouped_sections = 0
    /\ out_of_section = FALSE
    /\ default_exit_code = None
    /\ log_console = <<>>
    /\ log_html = <<>>
    /\ stdout = <<>>
    /\ html_file \in FilesBefore
    /\ exc = ""
    /\ exit_arg = None
    /\ trace = <<>>
    /\ result = NoResult
    /\ NothingOutside

NextFile ==
    \/ Construct
    \/ \E group \in BOOLEAN : Calls < MaxCalls /\ Section(group)
    \/ Calls < MaxCalls /\ SectionEnd
    \/ Calls < MaxCalls /\ Debug
    \/ Calls < MaxCalls /\ Info
    \/ Calls < MaxCalls /\ Notice
    \/ Calls < MaxCalls /\ Warning
    \/ Calls < MaxCalls /\ Error
    \/ \E sys_exit \in SysExitArgs, exit_code \in ExitCodes :
          Calls < MaxCalls /\ Critical(sys_exit, exit_code)

SpecFile == InitFile /\ [][NextFile]_vars

NextLog ==
    \/ Construct
    \/ \E group \in BOOLEAN : Count("section") < MaxLogSections /\ Section(group)
    \/ \E level \in LevelArgs, sys_exit \in SysExitArgs, exit_code \in ExitCodes :
          Count("log") < MaxLogs /\ Log(level, sys_exit, exit_code)

SpecLog == Init /\ [][NextLog]_vars

\* The Logger's constructor defaults.
DefaultConfig ==
    [ realtime_output |-> TRUE, github_console |-> TRUE, console_print_debug |-> TRUE,
      output_html_filepath |-> TRUE, initial_section_number |-> 1,
      exit_code_critical |-> [type |-> "int", val |-> 1] ]

\* The arguments _format_entry is called with.
FormatInputs ==
    [ fn : {"arguments"}, level : LevelNames,
      message : Texts(MessageChars, MaxTextLen),
      title : Texts(TitleChars, MaxTextLen),
      code : Texts(CodeChars, MaxTextLen),
      output : {<<>>} ]

InitFormat ==
    /\ cfg = DefaultConfig
    /\ pc = "new"
    /\ next_section_num = <<>>
    /\ curr_section = <<>>
    /\ open_grouped_sections = 0
    /\ out_of_section = FALSE
    /\ default_exit_code = None
    /\ log_console = <<>>
    /\ log_html = <<>>
    /\ stdout = <<>>
    /\ html_file = [exists |-> FALSE, content |-> <<>>]
    /\ exc = ""
    /\ exit_arg = None
    /\ trace = <<>>
    /\ result \in FormatInputs
    /\ NothingOutside

\* self._format_entry(level, message, title, code)
FormatEntry ==
    /\ result.fn = "arguments"
    /\ result' = [result EXCEPT
                    !.fn = "_format_entry",
                    !.output = <<format_entry_output(result.level, result.message,
                                                     result.title, result.code)>>]
    /\ UNCHANGED <<cfg, pc, next_section_num, curr_section, open_grouped_sections,
                   out_of_section, default_exit_code, log_console, log_html, stdout,
                   html_file, exc, exit_arg, trace, environ, files, FILEPATH, writers>>

NextFormat == FormatEntry

SpecFormat == InitFormat /\ [][NextFormat]_vars

\* --------------------------------------------------- pprint.github_log in full

\* The Logger is not involved: every variable but result keeps its value.
LoggerVars == <<cfg, pc, next_section_num, curr_section, open_grouped_sections,
                out_of_section, default_exit_code, log_console, log_html, stdout,
                html_file, exc, exit_arg, trace>>

\* No Logger has been constructed.
NoLogger ==
    /\ cfg = DefaultConfig
    /\ pc = "new"
    /\ next_section_num = <<>>
    /\ curr_section = <<>>
    /\ open_grouped_sections = 0
    /\ out_of_section = FALSE
    /\ default_exit_code = None
    /\ log_console = <<>>
    /\ log_html = <<>>
    /\ stdout = <<>>
    /\ html_file = [exists |-> FALSE, content |-> <<>>]
    /\ exc = ""
    /\ exit_arg = None
    /\ trace = <<>>

\* f"{n}" for an int n: its decimal digits.
RECURSIVE Digits(_)
Digits(n) ==
    LET d == CASE n % 10 = 0 -> "0" [] n % 10 = 1 -> "1" [] n % 10 = 2 -> "2"
               [] n % 10 = 3 -> "3" [] n % 10 = 4 -> "4" [] n % 10 = 5 -> "5"
               [] n % 10 = 6 -> "6" [] n % 10 = 7 -> "7" [] n % 10 = 8 -> "8"
               [] n % 10 = 9 -> "9"
    IN IF n < 10 THEN <<d>> ELSE Digits(n \div 10) \o <<d>>

\* str.removesuffix(suffix), suffix one character long.
removesuffix(text, suffix) ==
    IF Len(text) > 0 /\ text[Len(text)] = suffix THEN Front(text) ELSE text

\* The (arg_name, github_arg_name) pairs github_log goes through, in order.
GithubArgNames ==
    << <<"title", "title">>, <<"filename", "file">>, <<"line_start", "line">>,
       <<"line_end", "endLine">>, <<"column_start", "col">>, <<"column_end", "endColumn">> >>

\* args[arg_name] as f"{...}" renders it, and whether it is truthy.
ArgText(args, arg_name) ==
    IF arg_name \in {"title", "filename"} THEN args[arg_name] ELSE Digits(args[arg_name])
ArgTruthy(args, arg_name) ==
    IF arg_name \in {"title", "filename"} THEN args[arg_name] # <<>> ELSE args[arg_name] # 0

\* The loop of github_log over the first n pairs: (output, args_added).
RECURSIVE github_log_loop(_, _, _)
github_log_loop(args, start, n) ==
    IF n = 0 THEN [output |-> start, args_added |-> FALSE]
    ELSE LET prev == github_log_loop(args, start, n - 1)
             arg_name == GithubArgNames[n][1]
             github_arg_name == GithubArgNames[n][2]
         IN IF ArgTruthy(args, arg_name)
            THEN [output |-> prev.output \o <<github_arg_name, "=">>
                                \o ArgText(args, arg_name) \o <<",">>,
                  args_added |-> TRUE]
            ELSE prev

\* github_log removing the comma whether key=value pairs were added or not.
github_log_keeps_space(args) ==
    LET start == <<"::", args.message_type, " ">>
        looped == IF args.message_type # "debug"
                  THEN github_log_loop(args, start, Len(GithubArgNames))
                  ELSE [output |-> start, args_added |-> FALSE]
        message == IF args.message_type # "debug" THEN args.message
                   ELSE <<" ">> \o args.message
    IN removesuffix(looped.output, ",") \o <<"::">> \o message

\* pprint.github_log(message_type, message, title, filename, line_start,
\* line_end, column_start, column_end): the directive, character by character.
github_log_output(args) ==
    LET start == <<"::", args.message_type, " ">>
        looped == IF args.message_type # "debug"
                  THEN github_log_loop(args, start, Len(GithubArgNames))
                  ELSE [output |-> start, args_added |-> FALSE]
        message == IF args.message_type # "debug" THEN args.message
                   ELSE <<" ">> \o args.message
    IN removesuffix(looped.output, IF looped.args_added THEN "," ELSE " ")
          \o <<"::">> \o message

\* The arguments github_log is called with.
MessageTypes == {"debug", "notice", "warning", "error"}
DirectiveTexts == {<<>>, <<"T">>}
GithubLogArgs ==
    [ message_type : MessageTypes, message : {<<>>, <<"m">>},
      title : DirectiveTexts, filename : DirectiveTexts,
      line_start : 0..MaxLineNo, line_end : 0..MaxLineNo,
      column_start : 0..MaxLineNo, column_end : 0..MaxLineNo ]

InitDirective ==
    /\ NoLogger
    /\ result \in [fn : {"call github_log"}, args : GithubLogArgs, output : {<<>>}]
    /\ NothingOutside

\* pprint.github_log(..., pprint=False)
GithubLog ==
    /\ result.fn = "call github_log"
    /\ result' = [result EXCEPT !.fn = "github_log",
                                !.output = github_log_output(result.args)]
    /\ UNCHANGED <<LoggerVars, environ, files, FILEPATH, writers>>

NextDirective == GithubLog

SpecDirective == InitDirective /\ [][NextDirective]_vars

\* ------------------------------------------------ environment_variable.read

\* A Python value: its type and its repr.
PyValue(type, py) == [type |-> type, py |-> py]
PyNone == PyValue("NoneType", "None")

\* The strings the input variable may hold.
EnvStrings == {"abc", "", "true", "True", "1", "1.5", "[1]", "{}", "null", "\"s\""}

\* json.loads(text): the value, or the JSONDecodeError it raises.
json_loads(text) ==
    CASE text = "true" -> [exc |-> "", value |-> PyValue("bool", "True")]
      [] text = "1" -> [exc |-> "", value |-> PyValue("int", "1")]
      [] text = "1.5" -> [exc |-> "", value |-> PyValue("float", "1.5")]
      [] text = "[1]" -> [exc |-> "", value |-> PyValue("list", "[1]")]
      [] text = "{}" -> [exc |-> "", value |-> PyValue("dict", "{}")]
      [] text = "null" -> [exc |-> "", value |-> PyNone]
      [] text = "\"s\"" -> [exc |-> "", value |-> PyValue("str", "'s'")]
      [] OTHER -> [exc |-> "JSONDecodeError", value |-> PyNone]

\* isinstance(value, typ): bool is a subclass of int.
isinstance(value, typ) == value.type = typ \/ (value.type = "bool" /\ typ = "int")

\* The types read() supports and the typ arguments it is called with.
SupportedTypes == {"str", "bool", "int", "float", "list", "dict"}
TypeArgs == SupportedTypes \cup {"tuple"}

\* module._get_filepath(): the path in the module's variable, ActionManGitHubError
\* when the variable is unset or empty.
get_filepath(env, module) ==
    LET path == env[EnvVarOf(module)]
    IN IF IsNone(path) \/ Val(path) = ""
       THEN [exc |-> "ActionManGitHubError", path |-> None]
       ELSE [exc |-> "", path |-> path]

\* environment_variable.read(name, typ): the exception raised or the value
\* returned, and whether os.environ was consulted.
env_read(env, name, typ) ==
    IF typ \notin SupportedTypes
    THEN [exc |-> "ActionManInputVariableTypeError", value |-> None, consulted |-> FALSE]
    ELSE LET value == env[name]
         IN IF IsNone(value)
            THEN [exc |-> "", value |-> None, consulted |-> TRUE]
            ELSE IF typ = "str"
            THEN [exc |-> "", value |-> Some(PyValue("str", Val(value))), consulted |-> TRUE]
            ELSE LET loaded == json_loads(Val(value))
                 IN IF loaded.exc # ""
                    THEN [exc |-> "ActionManInputVariableDeserializationError",
                          value |-> None, consulted |-> TRUE]
                    ELSE IF ~isinstance(loaded.value, typ)
                    THEN [exc |-> "ActionManInputVariableTypeMismatchError",
                          value |-> None, consulted |-> TRUE]
                    ELSE [exc |-> "", value |-> Some(loaded.value), consulted |-> TRUE]

\* The values the runner's variable of a module may have.
RunnerValues(module) ==
    {None, Some(""),
     Some(CASE module = "environment_variable" -> "/env"
            [] module = "step_output" -> "/output"
            [] module = "step_summary" -> "/summary")}

\* import actionman.environment_variable / actionman.step_output: the module
\* body sets _FILEPATH = _get_filepath().
Import(module) ==
    /\ module \in {"environment_variable", "step_output"}
    /\ ~FILEPATH[module].imported
    /\ exc = ""
    /\ LET r == get_filepath(environ, module)
       IN /\ exc' = r.exc
          /\ FILEPATH' = IF r.exc = "" THEN [FILEPATH EXCEPT ![module] =
                                                [imported |-> TRUE, path |-> r.path]]
                         ELSE FILEPATH
    /\ UNCHANGED <<cfg, pc, next_section_num, curr_section, open_grouped_sections,
                   out_of_section, default_exit_code, log_console, log_html, stdout,
                   html_file, exit_arg, trace, result, environ, files, writers>>

\* The input variable: unset, or set to one of the strings.
InputValues == {None} \cup {Some(text) : text \in EnvStrings}

InitEnvRead ==
    /\ NoLogger
    /\ result = NoResult
    /\ \E runner \in RunnerValues("environment_variable"), input \in InputValues :
          environ = [name \in EnvNames |->
                        CASE name = "GITHUB_ENV" -> runner
                          [] name = "INPUT" -> input
                          [] OTHER -> None]
    /\ files = [path \in Paths |-> NoFile]
    /\ FILEPATH = [module \in Modules |-> NotImported]
    /\ writers = <<>>

\* actionman.environment_variable.read("INPUT", typ)
EnvRead(typ) ==
    /\ FILEPATH["environment_variable"].imported
    /\ LET r == env_read(environ, "INPUT", typ)
       IN result' = [fn |-> "environment_variable.read", typ |-> typ, exc |-> r.exc,
                     value |-> r.value, consulted |-> r.consulted]
    /\ UNCHANGED <<LoggerVars, environ, files, FILEPATH, writers>>

NextEnvRead ==
    \/ Import("environment_variable")
    \/ \E typ \in TypeArgs : EnvRead(typ)

SpecEnvRead == InitEnvRead /\ [][NextEnvRead]_vars

\* ------------------------------------------------ io.read_environment_variable

\* str.lower()
lower(text) == IF text = "True" THEN "true" ELSE text

\* int(text): the int, or the ValueError raised.
int_of(text) ==
    IF text = "1" THEN [exc |-> "", value |-> PyValue("int", "1")]
    ELSE [exc |-> "ValueError", value |-> PyNone]

\* float(text): the float, or the ValueError raised.
float_of(text) ==
    CASE text = "1" -> [exc |-> "", value |-> PyValue("float", "1.0")]
      [] text = "1.5" -> [exc |-> "", value |-> PyValue("float", "1.5")]
      [] OTHER -> [exc |-> "ValueError", value |-> PyNone]

\* The cast read_environment_variable makes of a set variable (always a str)
\* to typ: the value, or the exception that makes it report a casting error.
cast(value, typ) ==
    CASE typ = "str" -> [exc |-> "", value |-> PyValue("str", value)]
      [] typ = "bool" ->
            IF lower(value) \in {"true", "false", ""}
            THEN [exc |-> "", value |-> PyValue("bool", IF lower(value) = "true"
                                                        THEN "True" ELSE "False")]
            ELSE [exc |-> "not a boolean", value |-> PyNone]
      [] typ = "int" -> int_of(value)
      [] typ = "float" -> float_of(value)
      [] typ \in {"list", "dict"} -> json_loads(value)

\* The inner log(level=CRITICAL, ...) of read_environment_variable: the
\* logger's critical entry, then section_end(), then the exception; or the
\* exit the logger makes.
io_log_critical(s, has_logger, exception_type) ==
    IF has_logger
    THEN LET r == log(s, [type |-> "LogLevel", value |-> "critical"], None, None)
         IN IF r.exits
            THEN [outcome |-> "exit", exc |-> "", value |-> None, state |-> r.state,
                  arg |-> r.arg]
            ELSE [outcome |-> "raise", exc |-> exception_type, value |-> None,
                  state |-> section_end(r.state), arg |-> None]
    ELSE [outcome |-> "raise", exc |-> exception_type, value |-> None, state |-> s,
          arg |-> None]

\* io.read_environment_variable(name, typ, required, logger): how it ends
\* (return, raise, exit), with which value or exception, and the state it
\* leaves the logger in.
read_environment_variable(s, env, name, typ, required, has_logger) ==
    LET s1 == IF has_logger THEN debug(section(s, TRUE)) ELSE s
        value == env[name]
    IN IF IsNone(value)
       THEN IF required
            THEN io_log_critical(s1, has_logger, "ValueError")
            ELSE [outcome |-> "return", exc |-> "", value |-> None,
                  state |-> IF has_logger
                            THEN section_end(log(s1, [type |-> "LogLevel", value |-> "info"],
                                                 None, None).state)
                            ELSE s1,
                  arg |-> None]
       ELSE IF typ \notin SupportedTypes
       THEN [outcome |-> "raise", exc |-> "TypeError", value |-> None, state |-> s1,
             arg |-> None]
       ELSE LET casted == cast(Val(value), typ)
            IN IF casted.exc # ""
               THEN io_log_critical(s1, has_logger, "TypeError")
               ELSE [outcome |-> "return", exc |-> "", value |-> Some(casted.value),
                     state |-> IF has_logger THEN section_end(debug(info(s1))) ELSE s1,
                     arg |-> None]

\* The Loggers handed to read_environment_variable.
IOConfigs ==
    { [DefaultConfig EXCEPT !.github_console = github_console,
                            !.exit_code_critical = exit_code_critical,
                            !.output_html_filepath = FALSE] :
        github_console \in BOOLEAN,
        exit_code_critical \in {[type |-> "None", val |-> 0], [type |-> "int", val |-> 1]} }

InitIO ==
    /\ cfg \in IOConfigs
    /\ pc = "new"
    /\ next_section_num = <<>>
    /\ curr_section = <<>>
    /\ open_grouped_sections = 0
    /\ out_of_section = FALSE
    /\ default_exit_code = None
    /\ log_console = <<>>
    /\ log_html = <<>>
    /\ stdout = <<>>
    /\ html_file = NoFile
    /\ exc = ""
    /\ exit_arg = None
    /\ trace = <<>>
    /\ result = NoResult
    /\ \E input \in InputValues :
          environ = [name \in EnvNames |-> IF name = "INPUT" THEN input ELSE None]
    /\ files = [path \in Paths |-> NoFile]
    /\ FILEPATH = [module \in Modules |-> NotImported]
    /\ writers = <<>>

\* actionman.io.read_environment_variable("INPUT", typ, required, logger=...)
ReadEnvironmentVariable(typ, required, has_logger) ==
    /\ IF has_logger THEN pc = "ready" ELSE pc \in {"new", "ready"}
    /\ LET r == read_environment_variable(self, environ, "INPUT", typ, required, has_logger)
           pc1 == IF r.outcome = "exit" THEN "exited" ELSE pc
       IN /\ Commit(r.state)
          /\ pc' = pc1
          /\ exc' = r.exc
          /\ exit_arg' = (IF r.outcome = "exit" THEN r.arg ELSE exit_arg)
          /\ result' = [fn |-> "io.read_environment_variable", typ |-> typ,
                        required |-> required, logger |-> has_logger,
                        outcome |-> r.outcome, value |-> r.value]
          /\ trace' = Append(trace, Snap("read_environment_variable", FALSE, None, None,
                                         r.state, pc1))
    /\ UNCHANGED <<cfg, default_exit_code, environ, files, FILEPATH, writers>>

NextIO ==
    \/ Construct
    \/ \E typ \in TypeArgs, required \in BOOLEAN, has_logger \in BOOLEAN :
          /\ Count("read_environment_variable") < MaxReads
          /\ ReadEnvironmentVariable(typ, required, has_logger)

SpecIO == InitIO /\ [][NextIO]_vars

\* ------------------------------- environment_variable.write, step_output.write

\* The values write() is called with: strings without and with a newline, one
\* value of each JSON-serializable type, a dict json.dumps cannot serialize
\* and a set.
WriteValues ==
    { PyValue("str", "a"), PyValue("str", "a\nb"), PyValue("bool", "True"),
      PyValue("int", "1"), PyValue("float", "1.5"), PyNone, PyValue("list", "[1]"),
      PyValue("tuple", "(1,)"), PyValue("dict", "{}"), PyValue("dict", "{1: {2}}"),
      PyValue("set", "{1}") }

\* "\n" in value
HasNewline(py) == py = "a\nb"

\* json.dumps(value): the text, or the TypeError raised.
json_dumps(value) ==
    CASE value.py = "True" -> [exc |-> "", text |-> "true"]
      [] value.py = "1" -> [exc |-> "", text |-> "1"]
      [] value.py = "1.5" -> [exc |-> "", text |-> "1.5"]
      [] value.py = "None" -> [exc |-> "", text |-> "null"]
      [] value.py = "[1]" -> [exc |-> "", text |-> "[1]"]
      [] value.py = "(1,)" -> [exc |-> "", text |-> "[1]"]
      [] value.py = "{}" -> [exc |-> "", text |-> "{}"]
      [] OTHER -> [exc |-> "TypeError", text |-> ""]

\* base64 of 15 bytes read from /dev/urandom.
Delimiters == {"bGs3", "cTl4"}

\* _format.output_variable(name, value): the formatted text, piece by piece,
\* or the exception raised; random_delimeter is what /dev/urandom gave.
output_variable(name, value, random_delimeter) ==
    IF value.type = "str"
    THEN IF HasNewline(value.py)
         THEN [exc |-> "", output |-> <<name, "<<", random_delimeter, "\n", value.py, "\n",
                                        random_delimeter>>]
         ELSE [exc |-> "", output |-> <<name, "=", value.py>>]
    ELSE IF value.type \in {"dict", "list", "tuple", "bool", "int", "float", "NoneType"}
    THEN LET dumped == json_dumps(value)
         IN IF dumped.exc # ""
            THEN [exc |-> "ActionManOutputVariableSerializationError", output |-> <<>>]
            ELSE [exc |-> "", output |-> <<name, "=", dumped.text>>]
    ELSE [exc |-> "ActionManOutputVariableTypeError", output |-> <<>>]

\* with open(path, "a") as f: print(output, file=f)
open_a_print(file, output) ==
    [exists |-> TRUE, content |-> file.content \o output \o <<"\n">>]

\* environment_variable.write opening the file before it formats the value.
environment_variable_write_opens_first(file, name, value, random_delimeter) ==
    LET r == output_variable(name, value, random_delimeter)
    IN IF r.exc # ""
       THEN [exc |-> r.exc, output |-> <<>>, file |-> [file EXCEPT !.exists = TRUE]]
       ELSE [exc |-> "", output |-> r.output, file |-> open_a_print(file, r.output)]

\* environment_variable.write(name, value): the exception raised or the string
\* returned, and the file at _FILEPATH afterwards.
environment_variable_write(file, name, value, random_delimeter) ==
    LET r == output_variable(name, value, random_delimeter)
    IN IF r.exc # ""
       THEN [exc |-> r.exc, output |-> <<>>, file |-> file]
       ELSE [exc |-> "", output |-> r.output, file |-> open_a_print(file, r.output)]

\* step_output.write(name, value)
step_output_write(file, name, value, random_delimeter) ==
    LET r == output_variable(name, value, random_delimeter)
    IN IF r.exc # ""
       THEN [exc |-> r.exc, output |-> <<>>, file |-> file]
       ELSE [exc |-> "", output |-> r.output, file |-> open_a_print(file, r.output)]

\* What earlier steps of the job left in a runner's file.
EarlierContent == <<"OLD", "=", "1", "\n">>
RunnerFiles == {NoFile, [exists |-> TRUE, content |-> EarlierContent]}

InitWrite ==
    /\ NoLogger
    /\ result = NoResult
    /\ \E env \in RunnerValues("environment_variable"), out \in RunnerValues("step_output") :
          environ = [name \in EnvNames |->
                        CASE name = "GITHUB_ENV" -> env
                          [] name = "GITHUB_OUTPUT" -> out
                          [] OTHER -> None]
    /\ \E env \in RunnerFiles, out \in RunnerFiles :
          files = [path \in Paths |->
                        CASE path = "/env" -> env
                          [] path = "/output" -> out
                          [] OTHER -> NoFile]
    /\ FILEPATH = [module \in Modules |-> NotImported]
    /\ writers = <<>>

\* A write() call of a module: what it was called with and how it ended.
WriteCall(module, value, r) ==
    [op |-> "write", module |-> module, value |-> value, exc |-> r.exc, output |-> r.output]

\* actionman.environment_variable.write("NAME", value)
EnvWrite(value, random_delimeter) ==
    /\ FILEPATH["environment_variable"].imported
    /\ LET path == Val(FILEPATH["environment_variable"].path)
           r == environment_variable_write(files[path], "NAME", value, random_delimeter)
       IN /\ files' = [files EXCEPT ![path] = r.file]
          /\ exc' = r.exc
          /\ result' = [fn |-> "environment_variable.write", exc |-> r.exc,
                        output |-> r.output]
          /\ trace' = Append(trace, WriteCall("environment_variable", value, r))
    /\ UNCHANGED <<cfg, pc, next_section_num, curr_section, open_grouped_sections,
                   out_of_section, default_exit_code, log_console, log_html, stdout,
                   html_file, exit_arg, environ, FILEPATH, writers>>

\* actionman.step_output.write("NAME", value)
OutputWrite(value, random_delimeter) ==
    /\ FILEPATH["step_output"].imported
    /\ LET path == Val(FILEPATH["step_output"].path)
           r == step_output_write(files[path], "NAME", value, random_delimeter)
       IN /\ files' = [files EXCEPT ![path] = r.file]
          /\ exc' = r.exc
          /\ result' = [fn |-> "step_output.write", exc |-> r.exc, output |-> r.output]
          /\ trace' = Append(trace, WriteCall("step_output", value, r))
    /\ UNCHANGED <<cfg, pc, next_section_num, curr_section, open_grouped_sections,
                   out_of_section, default_exit_code, log_console, log_html, stdout,
                   html_file, exit_arg, environ, FILEPATH, writers>>

NextWrite ==
    \/ \E module \in {"environment_variable", "step_output"} : Import(module)
    \/ \E value \in WriteValues, random_delimeter \in Delimiters :
          Count("write") < MaxWrites /\ EnvWrite(value, random_delimeter)
    \/ \E value \in WriteValues, random_delimeter \in Delimiters :
          Count("write") < MaxWrites /\ OutputWrite(value, random_delimeter)

SpecWrite == InitWrite /\ [][NextWrite]_vars

\* ------------------------------------------------------------- step_summary

\* step_summary._FILEPATH falling back to a default path when the variable is
\* unset.
summary_filepath_default(env) ==
    IF ~IsNone(env["GITHUB_STEP_SUMMARY"]) THEN env["GITHUB_STEP_SUMMARY"]
    ELSE Some("/summary")

\* _FILEPATH = Path(os.environ[_ENV_VAR_NAME]) if _ENV_VAR_NAME in os.environ else None
summary_filepath(env) ==
    IF ~IsNone(env["GITHUB_STEP_SUMMARY"]) THEN env["GITHUB_STEP_SUMMARY"] ELSE None

\* The step_summary functions and the content append() and write() are given.
SummaryOps == {"filepath", "read", "append", "write", "remove"}

\* step_summary.filepath / read / append / write / remove with _FILEPATH
\* filepath: the exception raised, the value returned and the files afterwards.
step_summary(op, filepath, fs, content) ==
    IF IsNone(filepath)
    THEN [exc |-> "ActionManGitHubError", value |-> None, files |-> fs]
    ELSE LET path == Val(filepath)
             file == fs[path]
         IN CASE op = "filepath" -> [exc |-> "", value |-> Some(<<path>>), files |-> fs]
              [] op = "read" ->
                    [exc |-> "", files |-> fs,
                     value |-> IF file.exists THEN Some(file.content) ELSE None]
              [] op = "append" ->
                    [exc |-> "", value |-> None,
                     files |-> [fs EXCEPT ![path] = open_a_print(file, content)]]
              [] op = "write" ->
                    [exc |-> "", value |-> None,
                     files |-> [fs EXCEPT ![path] = open_w_write(file, content \o <<"\n">>)]]
              [] op = "remove" ->
                    IF file.exists
                    THEN [exc |-> "", value |-> None, files |-> [fs EXCEPT ![path] = NoFile]]
                    ELSE [exc |-> "FileNotFoundError", value |-> None, files |-> fs]

InitSummary ==
    /\ NoLogger
    /\ result = NoResult
    /\ \E summary \in {None, Some("/summary")} :
          environ = [name \in EnvNames |->
                        IF name = "GITHUB_STEP_SUMMARY" THEN summary ELSE None]
    /\ \E summary \in RunnerFiles :
          files = [path \in Paths |-> IF path = "/summary" THEN summary ELSE NoFile]
    /\ FILEPATH = [module \in Modules |-> NotImported]
    /\ writers = <<>>

\* import actionman.step_summary
ImportSummary ==
    /\ ~FILEPATH["step_summary"].imported
    /\ FILEPATH' = [FILEPATH EXCEPT !["step_summary"] =
                        [imported |-> TRUE, path |-> summary_filepath(environ)]]
    /\ UNCHANGED <<LoggerVars, result, environ, files, writers>>

\* actionman.step_summary.<op>(content)
StepSummary(op, content) ==
    /\ FILEPATH["step_summary"].imported
    /\ LET r == step_summary(op, FILEPATH["step_summary"].path, files, content)
       IN /\ files' = r.files
          /\ exc' = r.exc
          /\ result' = [fn |-> "step_summary", exc |-> r.exc, value |-> r.value]
          /\ trace' = Append(trace, [op |-> op, exc |-> r.exc])
    /\ UNCHANGED <<cfg, pc, next_section_num, curr_section, open_grouped_sections,
                   out_of_section, default_exit_code, log_console, log_html, stdout,
                   html_file, exit_arg, environ, FILEPATH, writers>>

NextSummary ==
    \/ ImportSummary
    \/ \E op \in SummaryOps, content \in {<<"# Summary">>, <<"text">>} :
          Len(trace) < MaxSummaryOps /\ StepSummary(op, content)

SpecSummary == InitSummary /\ [][NextSummary]_vars

\* ------------------------------------------------ Logger.critical, step by step

\* The steps of critical() in the order of its statements: flush the streams,
\* _submit the entry, close the open group, emit the annotation, sys.exit.
CriticalStepsAnnotateFirst == <<"flush", "annotate", "submit", "close", "exit">>
CriticalSteps == <<"flush", "submit", "close", "annotate", "exit">>

\* The step after the one pc names; "return" after the last.
StepAfter(step) ==
    LET i == CHOOSE n \in 1..Len(CriticalSteps) : CriticalSteps[n] = step
    IN IF i < Len(CriticalSteps) THEN CriticalSteps[i + 1] ELSE "return"

\* Text the program printed before the call that sits in the stream buffer.
UserOutput == [kind |-> "user", level |-> "", h |-> 0, num |-> <<>>, prefix |-> ""]

\* sys_exit as critical() settles it.
SysExit(sys_exit) == IF IsNone(sys_exit) THEN ~IsNone(default_exit_code) ELSE Val(sys_exit)

\* A step leaves everything but the Logger's outputs and position as it is.
StepFrame == UNCHANGED <<cfg, default_exit_code, exc, trace, environ, files, FILEPATH, writers>>

\* critical(message, sys_exit, exit_code) is entered, the stream buffer holding
\* earlier output of the program or not.
CriticalBegin(sys_exit, exit_code, buffered) ==
    /\ pc = "ready"
    /\ pc' = CriticalSteps[1]
    /\ result' = [fn |-> "critical", sys_exit |-> sys_exit, exit_code |-> exit_code,
                  buffered |-> buffered, entered |-> self, steps |-> <<>>]
    /\ UNCHANGED <<next_section_num, curr_section, open_grouped_sections, out_of_section,
                   log_console, log_html, stdout, html_file, exit_arg>>
    /\ StepFrame

\* sys.stdout.flush(); sys.stderr.flush()
CriticalFlush ==
    /\ pc = "flush"
    /\ Commit(IF result.buffered THEN print(self, UserOutput) ELSE self)
    /\ result' = [result EXCEPT !.buffered = FALSE, !.steps = Append(@, "flush")]
    /\ pc' = StepAfter("flush")
    /\ UNCHANGED exit_arg
    /\ StepFrame

\* self._submit(console=output_console, file=output_html)
CriticalSubmit ==
    /\ pc = "submit"
    /\ LET e == format_entry("critical")
       IN Commit(submit(self, e.console, e.html, FALSE))
    /\ result' = [result EXCEPT !.steps = Append(@, "submit")]
    /\ pc' = StepAfter("submit")
    /\ UNCHANGED exit_arg
    /\ StepFrame

\* if sys_exit and self._open_grouped_sections: self._submit_console(endgroup)
CriticalClose ==
    /\ pc = "close"
    /\ Commit(IF SysExit(result.sys_exit) /\ open_grouped_sections # 0
              THEN submit_console(self, github_group_end, FALSE)
              ELSE self)
    /\ result' = [result EXCEPT !.steps = Append(@, "close")]
    /\ pc' = StepAfter("close")
    /\ UNCHANGED exit_arg
    /\ StepFrame

\* if self._github_console: github_log("error", ..., title="FATAL ERROR: ...")
CriticalAnnotate ==
    /\ pc = "annotate"
    /\ LET e == format_entry("critical")
       IN Commit(IF cfg.github_console
                 THEN print(self, github_log("error", e.annotation,
                                             [num |-> curr_section, prefix |-> "FATAL ERROR"]))
                 ELSE self)
    /\ result' = [result EXCEPT !.steps = Append(@, "annotate")]
    /\ pc' = StepAfter("annotate")
    /\ UNCHANGED exit_arg
    /\ StepFrame

\* if sys_exit: sys.exit(exit_code or self._default_exit_code); return
CriticalExit ==
    /\ pc = "exit"
    /\ LET exits == SysExit(result.sys_exit)
           pc1 == IF exits THEN "exited"
                  ELSE IF StepAfter("exit") = "return" THEN "ready" ELSE StepAfter("exit")
       IN /\ pc' = pc1
          /\ exit_arg' = (IF exits
                          THEN (IF Truthy(result.exit_code) THEN result.exit_code
                                ELSE default_exit_code)
                          ELSE exit_arg)
          /\ trace' = Append(trace, Snap("critical", FALSE, result.sys_exit,
                                         result.exit_code, self, pc1))
    /\ result' = [result EXCEPT !.steps = Append(@, "exit")]
    /\ UNCHANGED <<cfg, next_section_num, curr_section, open_grouped_sections,
                   out_of_section, default_exit_code, log_console, log_html, stdout,
                   html_file, exc, environ, files, FILEPATH, writers>>

NextCritical ==
    \/ Construct
    \/ \E group \in BOOLEAN : Count("section") < MaxCriticalSections /\ Section(group)
    \/ \E sys_exit \in SysExitArgs, exit_code \in ExitCodes, buffered \in BOOLEAN :
          Count("critical") < MaxCriticals /\ CriticalBegin(sys_exit, exit_code, buffered)
    \/ CriticalFlush
    \/ CriticalSubmit
    \/ CriticalClose
    \/ CriticalAnnotate
    \/ CriticalExit

SpecCritical == Init /\ [][NextCritical]_vars

\* ------------------------------------------ two writers of one HTML file

\* The threads (or Loggers) that write to the same output_html_filepath.
Writers == {1, 2}

\* The fragments they write: one short, one long.
WriterFragments ==
    { <<[kind |-> "<ul>", level |-> "info", h |-> 0, num |-> <<>>]>>,
      <<[kind |-> "<ul>", level |-> "error", h |-> 0, num |-> <<>>],
        [kind |-> "<pre>", level |-> "error", h |-> 0, num |-> <<>>]>> }

\* file.seek(offset, 2) going to the very end of the file.
seek_to_end(content) == Len(content)

\* file.seek(self._html_num_chars_at_end, 2): the position it leaves the file at.
seek(content) == Len(content) + html_num_chars_at_end

\* file.write(data) at position pos: data overwrites what is there and extends
\* the file, nothing is truncated.
write_at(content, pos, data) ==
    SubSeq(content, 1, pos) \o data
        \o (IF pos + Len(data) < Len(content)
            THEN SubSeq(content, pos + Len(data) + 1, Len(content))
            ELSE <<>>)

InitWriters ==
    /\ cfg = DefaultConfig
    /\ pc = "ready"
    /\ next_section_num = <<>>
    /\ curr_section = <<>>
    /\ open_grouped_sections = 0
    /\ out_of_section = FALSE
    /\ default_exit_code = None
    /\ log_console = <<>>
    /\ log_html = <<>>
    /\ stdout = <<>>
    /\ html_file = [exists |-> TRUE, content |-> html_head \o html_file_end]
    /\ exc = ""
    /\ exit_arg = None
    /\ trace = <<>>
    /\ result = NoResult
    /\ environ = [name \in EnvNames |-> None]
    /\ files = [path \in Paths |-> NoFile]
    /\ FILEPATH = [module \in Modules |-> NotImported]
    /\ writers = [w \in Writers |-> [step |-> "idle", pos |-> 0, html |-> <<>>]]

\* with open(self._output_html_filepath, 'rb+') as file
WriterOpen(w, html) ==
    /\ writers[w].step = "idle"
    /\ writers' = [writers EXCEPT ![w] = [step |-> "opened", pos |-> 0, html |-> html]]
    /\ trace' = Append(trace, [op |-> "open", writer |-> w, html |-> html,
                               overlaps |-> \E v \in Writers \ {w} : writers[v].step # "idle"])
    /\ UNCHANGED html_file
    /\ UNCHANGED <<cfg, pc, next_section_num, curr_section, open_grouped_sections,
                   out_of_section, default_exit_code, log_console, log_html, stdout, exc,
                   exit_arg, result, environ, files, FILEPATH>>

\* file.seek(self._html_num_chars_at_end, 2)
WriterSeek(w) ==
    /\ writers[w].step = "opened"
    /\ writers' = [writers EXCEPT ![w].step = "sought", ![w].pos = seek(html_file.content)]
    /\ UNCHANGED <<html_file, trace>>
    /\ UNCHANGED <<cfg, pc, next_section_num, curr_section, open_grouped_sections,
                   out_of_section, default_exit_code, log_console, log_html, stdout, exc,
                   exit_arg, result, environ, files, FILEPATH>>

\* file.write(f"{file_entry}{self._html_file_end}"); the file is closed
WriterWrite(w) ==
    /\ writers[w].step = "sought"
    /\ html_file' = [html_file EXCEPT !.content =
                        write_at(@, writers[w].pos, writers[w].html \o html_file_end)]
    /\ writers' = [writers EXCEPT ![w] = [step |-> "idle", pos |-> 0, html |-> <<>>]]
    /\ trace' = Append(trace, [op |-> "write", writer |-> w, html |-> writers[w].html,
                               overlaps |-> FALSE])
    /\ UNCHANGED <<cfg, pc, next_section_num, curr_section, open_grouped_sections,
                   out_of_section, default_exit_code, log_console, log_html, stdout, exc,
                   exit_arg, result, environ, files, FILEPATH>>

NextWriters ==
    \/ \E w \in Writers, html \in WriterFragments :
          Count("open") < MaxWriterCycles /\ WriterOpen(w, html)
    \/ \E w \in Writers : WriterSeek(w)
    \/ \E w \in Writers : WriterWrite(w)

SpecWriters == InitWriters /\ [][NextWriters]_vars

\* ------------------- io.read_function_args_from_environment_variables

\* The parameters of the functions whose arguments are read, in the order of
\* their type hints: a has no default value, b has one.
Functions ==
    { << [name |-> "a", typ |-> typ_a, default |-> None],
         [name |-> "b", typ |-> typ_b,
          default |-> Some(IF typ_b = "int" THEN PyValue("int", "7")
                           ELSE PyValue("str", "d"))] >> :
        typ_a \in {"str", "int"}, typ_b \in {"str", "int"} }

\* f"{name_prefix}{name}".upper() with an empty prefix
upper(name) == IF name = "a" THEN "A" ELSE IF name = "b" THEN "B" ELSE name

\* One statement after another: the value v of the first is computed, and
\* the rest, F, goes on from it.
Then(v, F(_)) == CHOOSE out \in {F(x) : x \in {v}} : TRUE

\* The loop over params.items() from parameter k on; args is the dictionary
\* built so far, as a sequence of (name, value) items.
RECURSIVE read_function_args_loop(_, _, _, _, _, _, _)
read_function_args_loop(s, env, function, k, ignore_params, has_logger, args) ==
    IF k > Len(function)
    THEN [outcome |-> "return", exc |-> "", args |-> args,
          state |-> IF has_logger THEN section_end(s) ELSE s, arg |-> None]
    ELSE IF function[k].name \in ignore_params
    THEN read_function_args_loop(s, env, function, k + 1, ignore_params, has_logger, args)
    ELSE Then(read_environment_variable(s, env, upper(function[k].name), function[k].typ,
                                        ~IsNone(function[k].default), has_logger),
              LAMBDA r :
                IF r.outcome # "return"
                THEN [outcome |-> r.outcome, exc |-> r.exc, args |-> args,
                      state |-> r.state, arg |-> r.arg]
                ELSE IF ~IsNone(r.value) /\ Val(r.value) # PyNone   \* arg is not None
                THEN read_function_args_loop(
                         r.state, env, function, k + 1, ignore_params, has_logger,
                         Append(args, [name |-> function[k].name, value |-> Val(r.value)]))
                ELSE IF IsNone(function[k].default)
                THEN [outcome |-> "raise", exc |-> "KeyError", args |-> args,
                      state |-> r.state, arg |-> None]
                ELSE read_function_args_loop(
                         r.state, env, function, k + 1, ignore_params, has_logger,
                         Append(args, [name |-> function[k].name,
                                       value |-> Val(function[k].default)])))

\* logger.debug(...) called n times in a row.
RECURSIVE debug_times(_, _)
debug_times(s, n) ==
    IF n = 0 THEN s ELSE Then(debug(s), LAMBDA s1 : debug_times(s1, n - 1))

\* io.read_function_args_from_environment_variables(function, ignore_params,
\* logger): how it ends, the arguments it returns and the state it leaves the
\* logger in.
read_function_args_from_environment_variables(s, env, function, ignore_params, has_logger) ==
    IF has_logger
    THEN Then(section(s, TRUE), LAMBDA s1 :
         Then(debug_times(s1, 6), LAMBDA s2 :
              read_function_args_loop(s2, env, function, 1, ignore_params, has_logger, <<>>)))
    ELSE read_function_args_loop(s, env, function, 1, ignore_params, has_logger, <<>>)

InitArgs ==
    /\ cfg \in IOConfigs
    /\ pc = "new"
    /\ next_section_num = <<>>
    /\ curr_section = <<>>
    /\ open_grouped_sections = 0
    /\ out_of_section = FALSE
    /\ default_exit_code = None
    /\ log_console = <<>>
    /\ log_html = <<>>
    /\ stdout = <<>>
    /\ html_file = NoFile
    /\ exc = ""
    /\ exit_arg = None
    /\ trace = <<>>
    /\ result = NoResult
    /\ environ \in [{upper("a"), upper("b")} -> {None, Some("1"), Some("abc")}]
    /\ files = [path \in Paths |-> NoFile]
    /\ FILEPATH = [module \in Modules |-> NotImported]
    /\ writers = <<>>

\* actionman.io.read_function_args_from_environment_variables(function,
\* ignore_params=..., logger=...)
ReadFunctionArgs(function, ignore_params, has_logger) ==
    /\ IF has_logger THEN pc = "ready" ELSE pc \in {"new", "ready"}
    /\ \E r \in {read_function_args_from_environment_variables(self, environ, function,
                                                                ignore_params, has_logger)} :
       LET pc1 == IF r.outcome = "exit" THEN "exited" ELSE pc
       IN /\ Commit(r.state)
          /\ pc' = pc1
          /\ exc' = r.exc
          /\ exit_arg' = (IF r.outcome = "exit" THEN r.arg ELSE exit_arg)
          /\ result' = [fn |-> "io.read_function_args_from_environment_variables",
                        function |-> function, ignore_params |-> ignore_params,
                        logger |-> has_logger, outcome |-> r.outcome, args |-> r.args]
          /\ trace' = Append(trace, Snap("read_function_args", FALSE, None, None,
                                         r.state, pc1))
    /\ UNCHANGED <<cfg, default_exit_code, environ, files, FILEPATH, writers>>

NextArgs ==
    \/ Construct
    \/ \E function \in Functions, ignore_params \in SUBSET {"a", "b"},
          has_logger \in BOOLEAN :
          /\ Count("read_function_args") < MaxArgReads
          /\ ReadFunctionArgs(function, ignore_params, has_logger)

SpecArgs == InitArgs /\ [][NextArgs]_vars

\* ------------------------------------------------- sections: C1 .. C5

\* The names of the calls made, in order.
Ops == [k \in 1..Len(trace) |-> trace[k].op]

\* The dotted number call k (a section() call, or __init__ for the root) gave
\* to its heading.
Number(k) == trace[k].curr

\* What call k appended to the console transcript, to the HTML body and to
\* standard output.
ConsoleOf(k) == SubSeq(log_console, (IF k = 1 THEN 0 ELSE trace[k-1].con) + 1, trace[k].con)
HtmlOf(k) == SubSeq(log_html, (IF k = 1 THEN Len(html_head) ELSE trace[k-1].html) + 1,
                    trace[k].html)
StdoutOf(k) == SubSeq(stdout, (IF k = 1 THEN 0 ELSE trace[k-1].out) + 1, trace[k].out)

IsGroupStart(line) == line.kind = "heading" /\ line.prefix = "::group::"
IsGroupEnd(line) == line.kind = "endgroup"

Starts(k) == Len(SelectSeq(ConsoleOf(k), IsGroupStart))
Ends(k) == Len(SelectSeq(ConsoleOf(k), IsGroupEnd))

\* p with its last component one greater.
Bump(p) == [p EXCEPT ![Len(p)] = @ + 1]

NoOf(op, i, j) == Cardinality({k \in i..j : trace[k].op = op})

\* Calls i..j are section()/section_end() calls, every section_end() closes a
\* section opened in i..j and every section opened in i..j is closed.
Balanced(i, j) ==
    /\ i <= j
    /\ \A k \in i..j : /\ trace[k].op \in {"section", "section_end"}
                       /\ NoOf("section_end", i, k) <= NoOf("section", i, k)
    /\ NoOf("section_end", i, j) = NoOf("section", i, j)

\* The call that opened the section the section_end() call j closed.
Opener(j) == CHOOSE m \in 2..j : Balanced(m, j) /\ \A n \in (m+1)..j : ~Balanced(n, j)

\* C1 (as claimed): on a fresh Logger with initial section number 1 the root
\* and two nested section() calls are numbered 1, 1.1, 1.1.1, and after three
\* section_end() calls the next section() is numbered 1.2.
C1_NestedThenSibling ==
    ( /\ cfg.initial_section_number = 1
      /\ Len(trace) >= 7
      /\ SubSeq(Ops, 1, 7) = <<"__init__", "section", "section", "section_end",
                               "section_end", "section_end", "section">> )
    => /\ Number(1) = <<1>>
       /\ Number(2) = <<1, 1>>
       /\ Number(3) = <<1, 1, 1>>
       /\ Number(7) = <<1, 2>>

\* C2: after a balanced sequence of section()/section_end() calls the nesting
\* depth is what it was before it, and the next section() is numbered one
\* greater than the last section the sequence closed at that depth.
C2_BalancedSequence ==
    \A i, j \in 2..Len(trace) :
        Balanced(i, j) =>
            /\ Len(trace[j].path) = Len(trace[i-1].path)
            /\ trace[j].path = Bump(Number(Opener(j)))
            /\ (j < Len(trace) /\ trace[j+1].op = "section"
                    => Number(j+1) = Bump(Number(Opener(j))))

C2_Witness ==
    /\ Len(trace) >= 6
    /\ SubSeq(Ops, 2, 6) = <<"section", "section", "section_end", "section_end", "section">>
    /\ Number(6) = Bump(Number(2))

\* The number of sections open after call k, a section_end() closing one
\* whenever more than `floor` are open.
RECURSIVE OpenAfter(_, _)
OpenAfter(k, floor) ==
    IF k = 1 THEN 1
    ELSE LET d == OpenAfter(k - 1, floor)
         IN CASE trace[k].op = "section" -> d + 1
              [] trace[k].op = "section_end" -> (IF d > floor THEN d - 1 ELSE d)
              [] OTHER -> d

IsHeadingCall(k) == trace[k].op \in {"__init__", "section"}

\* C3 (as claimed): a heading's number has as many components as there are
\* sections open once it is entered, counting sections opened (the root
\* included) minus sections closed, never below zero.
C3_ComponentsEqualDepth_Claimed ==
    \A k \in 1..Len(trace) : IsHeadingCall(k) => Len(Number(k)) = OpenAfter(k, 0)

\* C3 (amended): the same, the root section never being closed: a
\* section_end() made when only the root is open closes nothing.
C3_ComponentsEqualDepth ==
    \A k \in 1..Len(trace) : IsHeadingCall(k) => Len(Number(k)) = OpenAfter(k, 1)

C3_Witness ==
    /\ Len(trace) >= 4
    /\ SubSeq(Ops, 2, 4) = <<"section_end", "section", "section">>
    /\ Len(Number(4)) = 3

\* C4 (as claimed): a section_end() made when more sections have been closed
\* than were opened leaves the section path as it was.
C4_ExtraEndLeavesPath ==
    \A k \in 2..Len(trace) :
        (trace[k].op = "section_end" /\ OpenAfter(k - 1, 0) = 0)
            => trace[k].path = trace[k-1].path

\* C5: with annotation emission on and no group open, N nested
\* section(group=True) calls followed by N section_end() calls emit one
\* '::group::' marker, in the first section call, and one '::endgroup::'
\* marker, in the Nth section_end call, and no other marker.
C5_OneMarkerPair ==
    \A i \in 2..Len(trace) : \A n \in 1..Len(trace) :
        ( /\ cfg.github_console
          /\ i + 2*n - 1 <= Len(trace)
          /\ trace[i-1].groups = 0
          /\ \A k \in i..(i+n-1) : trace[k].op = "section" /\ trace[k].group
          /\ \A k \in (i+n)..(i+2*n-1) : trace[k].op = "section_end" )
        => \A k \in i..(i+2*n-1) :
              /\ Starts(k) = (IF k = i THEN 1 ELSE 0)
              /\ Ends(k) = (IF k = i + 2*n - 1 THEN 1 ELSE 0)

C5_Witness ==
    /\ cfg.github_console
    /\ Len(trace) = 5
    /\ \A k \in 2..3 : trace[k].op = "section" /\ trace[k].group
    /\ \A k \in 4..5 : trace[k].op = "section_end"
    /\ Starts(2) = 1 /\ Ends(5) = 1

\* ------------------------------------------------- groups, critical, echo: C6 .. C10

IsCriticalEntry(line) == line.kind = "entry" /\ line.level = "critical"
IsCriticalHtml(frag) == frag.kind = "<ul>" /\ frag.level = "critical"
IsDirective(line) == line.kind = "directive"
IsFatalAnnotation(line) == line.kind = "directive" /\ line.prefix = "FATAL ERROR"

Has(seq, P(_)) == \E n \in 1..Len(seq) : P(seq[n])

\* Call k is a critical() call whose arguments and Logger enable the exit.
ExitEnabled(k) ==
    \/ trace[k].sys_exit = Some(TRUE)
    \/ trace[k].sys_exit = None /\ ~IsNone(default_exit_code)

IsCritical(k) == trace[k].op = "critical"

\* C6 (as claimed): the group depth is never negative, a '::group::' marker
\* is emitted only by a step taking the depth from 0 to 1 and an
\* '::endgroup::' marker only by a step taking it from 1 to 0.
C6_MarkersOnlyOnTransitions_Claimed ==
    /\ open_grouped_sections >= 0
    /\ \A k \in 2..Len(trace) :
          /\ Starts(k) > 0 => trace[k-1].groups = 0 /\ trace[k].groups = 1
          /\ Ends(k) > 0 => trace[k-1].groups = 1 /\ trace[k].groups = 0

\* C6 (amended): the same, except that a critical() call that terminates the
\* process while a group is open also emits an '::endgroup::' marker, and
\* leaves the depth as it was.
C6_MarkersOnlyOnTransitions ==
    /\ open_grouped_sections >= 0
    /\ \A k \in 2..Len(trace) :
          /\ Starts(k) > 0 => trace[k-1].groups = 0 /\ trace[k].groups = 1
          /\ Ends(k) > 0 =>
                \/ /\ trace[k].op = "section_end"
                   /\ trace[k-1].groups = 1 /\ trace[k].groups = 0
                \/ /\ IsCritical(k) /\ trace[k].pc = "exited"
                   /\ trace[k-1].groups > 0 /\ trace[k].groups = trace[k-1].groups

C6_Witness ==
    /\ Len(trace) = 4
    /\ Starts(2) = 1
    /\ trace[3].groups = 2
    /\ IsCritical(4) /\ Ends(4) = 1 /\ pc = "exited"

\* C7 (as claimed): a critical() call with exit disabled returns, and then
\* the console transcript and the HTML transcript both hold the critical
\* entry and its CI annotation.
C7_ReturnsWithEntryAndAnnotation_Claimed ==
    \A k \in 2..Len(trace) :
        (IsCritical(k) /\ ~ExitEnabled(k) /\ cfg.github_console) =>
            /\ trace[k].pc = "ready"
            /\ Has(ConsoleOf(k), IsCriticalEntry) /\ Has(HtmlOf(k), IsCriticalHtml)
            /\ Has(ConsoleOf(k), IsFatalAnnotation) /\ Has(HtmlOf(k), IsFatalAnnotation)

\* C7 (amended): a critical() call with exit disabled returns, and then the
\* console transcript and the HTML transcript both hold the critical entry;
\* its CI annotation is in neither transcript: it is printed to standard
\* output, when annotation emission is on.
C7_ReturnsWithEntry ==
    \A k \in 2..Len(trace) :
        (IsCritical(k) /\ ~ExitEnabled(k)) =>
            /\ trace[k].pc = "ready"
            /\ Has(ConsoleOf(k), IsCriticalEntry) /\ Has(HtmlOf(k), IsCriticalHtml)
            /\ ~Has(log_console, IsDirective) /\ ~Has(log_html, IsDirective)
            /\ Has(StdoutOf(k), IsFatalAnnotation) <=> cfg.github_console

C7_Witness ==
    /\ Len(trace) = 3
    /\ IsCritical(2) /\ trace[2].sys_exit = Some(FALSE) /\ cfg.github_console
    /\ Has(StdoutOf(2), IsFatalAnnotation)
    /\ pc = "ready" /\ trace[3].op = "info"

\* C8 (as claimed): critical() terminates the process exactly when exit is
\* enabled; the exit code is then the exit_code argument if one was given and
\* the Logger's default otherwise, and no call follows the terminating one.
C8_ExitCode ==
    \A k \in 2..Len(trace) :
        IsCritical(k) =>
            /\ trace[k].pc = "exited" <=> ExitEnabled(k)
            /\ trace[k].pc = "exited" =>
                  /\ k = Len(trace)
                  /\ ExitStatus(exit_arg) =
                        ExitStatus(IF ~IsNone(trace[k].exit_code) THEN trace[k].exit_code
                                   ELSE default_exit_code)

\* C9 (as claimed): a critical() call made while a group is open appends an
\* '::endgroup::' marker to the console output, whatever sys_exit and the
\* default exit code are.
C9_CriticalClosesGroup_Claimed ==
    \A k \in 2..Len(trace) :
        (IsCritical(k) /\ cfg.github_console /\ trace[k-1].groups > 0) => Ends(k) >= 1

\* C9 (amended): a critical() call made while a group is open appends one
\* '::endgroup::' marker to the console output when exit is enabled, and none
\* when exit is disabled.
C9_CriticalClosesGroup ==
    \A k \in 2..Len(trace) :
        (IsCritical(k) /\ cfg.github_console /\ trace[k-1].groups > 0) =>
            /\ Ends(k) = (IF ExitEnabled(k) THEN 1 ELSE 0)
            /\ cfg.realtime_output =>
                  Len(SelectSeq(StdoutOf(k), IsGroupEnd)) = (IF ExitEnabled(k) THEN 1 ELSE 0)

C9_Witness ==
    /\ Len(trace) = 3
    /\ trace[2].op = "section" /\ trace[2].groups = 1
    /\ IsCritical(3) /\ trace[3].sys_exit = None /\ ~IsNone(default_exit_code)
    /\ Ends(3) = 1

\* C10: a console write is echoed to standard output exactly when realtime
\* output is on and the entry is not a debug entry, or debug echo is on, or
\* annotation emission is on.
NotDirective(line) == ~IsDirective(line)

C10_EchoCondition ==
    \A k \in 1..Len(trace) :
        LET echoed == /\ cfg.realtime_output
                      /\ \/ trace[k].op # "debug"
                         \/ cfg.console_print_debug
                         \/ cfg.github_console
        IN SelectSeq(StdoutOf(k), NotDirective) = (IF echoed THEN ConsoleOf(k) ELSE <<>>)

C10_Witness ==
    /\ Len(trace) = 3
    /\ cfg.realtime_output
    /\ trace[2].op = "debug" /\ StdoutOf(2) = <<>> /\ Len(ConsoleOf(2)) = 1
    /\ trace[3].op = "info" /\ StdoutOf(3) = ConsoleOf(3) /\ Len(ConsoleOf(3)) = 1

\* ------------------------------------------------- transcripts and the file: C11 .. C15

IsPrefix(s, u) == Len(s) <= Len(u) /\ SubSeq(u, 1, Len(s)) = s

IsDebugEntry(line) == line.kind = "entry" /\ line.level = "debug"
IsDebugHtml(frag) == frag.kind = "<ul>" /\ frag.level = "debug"

\* The fragments written to the HTML body so far, in order.
Fragments == SubSeq(log_html, Len(html_head) + 1, Len(log_html))

IsClosingTag(frag) == frag.kind \in {"</body>", "</html>"}

\* doc is the head, then exactly the fragments frags, then the closing tags,
\* which occur nowhere else in it.
CompleteDocument(doc, frags) ==
    /\ Len(doc) = Len(html_head) + Len(frags) + Len(html_file_end)
    /\ SubSeq(doc, 1, Len(html_head)) = html_head
    /\ SubSeq(doc, Len(html_head) + 1, Len(doc) - Len(html_file_end)) = frags
    /\ SubSeq(doc, Len(doc) - Len(html_file_end) + 1, Len(doc)) = html_file_end
    /\ Len(SelectSeq(doc, IsClosingTag)) = Len(html_file_end)

\* C11: every debug() call appends its entry to the console transcript and to
\* the HTML transcript, whatever realtime_output, console_print_debug and
\* github_console are, also when the entry is not echoed.
C11_DebugRecorded ==
    \A k \in 2..Len(trace) :
        trace[k].op = "debug" =>
            /\ Len(ConsoleOf(k)) = 1 /\ IsDebugEntry(ConsoleOf(k)[1])
            /\ Len(HtmlOf(k)) = 1 /\ IsDebugHtml(HtmlOf(k)[1])
            /\ Has(console_log, IsDebugEntry) /\ Has(html_log, IsDebugHtml)

C11_Witness ==
    /\ Len(trace) = 2 /\ trace[2].op = "debug"
    /\ cfg.realtime_output /\ ~cfg.console_print_debug /\ ~cfg.github_console
    /\ StdoutOf(2) = <<>>
    /\ Has(console_log, IsDebugEntry) /\ Has(html_log, IsDebugHtml)

\* C12: both transcripts only grow: every step leaves the console transcript
\* and the HTML body with what they held as a prefix; and html_log is the
\* head, the fragments written so far and the closing tags.
C12_AppendOnly ==
    /\ [][IsPrefix(log_console, log_console') /\ IsPrefix(log_html, log_html')]_vars
    /\ [](pc \in {"ready", "exited"} =>
            /\ Len(log_html) = trace[Len(trace)].html
            /\ Len(log_console) = trace[Len(trace)].con
            /\ CompleteDocument(html_log, Fragments))

C12_Witness ==
    /\ Len(trace) = 3
    /\ Len(Fragments) = 3 /\ Len(log_console) >= 3
    /\ CompleteDocument(html_log, Fragments)

\* C13: with realtime output on and an HTML path given, after construction
\* and after every call the file is a complete document: the head, every
\* fragment written so far in order, and the closing tags once, at the end.
C13_FileComplete ==
    (cfg.realtime_output /\ cfg.output_html_filepath /\ pc \in {"ready", "exited"})
        => html_file.exists /\ CompleteDocument(html_file.content, Fragments)

C13_Witness ==
    /\ cfg.realtime_output /\ cfg.output_html_filepath
    /\ Len(trace) = 3 /\ Len(Fragments) = 3
    /\ CompleteDocument(html_file.content, Fragments)

\* The body is empty or holds fragments, between the head and the closing tags.
WellFormed(doc) ==
    /\ Len(doc) >= Len(html_head) + Len(html_file_end)
    /\ CompleteDocument(doc, SubSeq(doc, Len(html_head) + 1, Len(doc) - Len(html_file_end)))

\* C14 (as claimed): with an HTML path given, construction creates the file
\* and writes the initial document, realtime output on or off, so that right
\* after it the file is a well-formed document.
C14_InitialDocument_Claimed ==
    (pc = "ready" /\ Len(trace) = 1 /\ cfg.output_html_filepath)
        => html_file.exists /\ WellFormed(html_file.content)

\* C14 (amended): with an HTML path given, construction creates the file if
\* there is none; with realtime output on it writes the initial document and
\* the root heading into it, with realtime output off it writes nothing.
C14_InitialDocument ==
    [][ (pc = "new" /\ pc' = "ready" /\ cfg.output_html_filepath) =>
            /\ html_file'.exists
            /\ IF cfg.realtime_output
               THEN /\ Len(Fragments') = 1 /\ Fragments'[1].kind = "<h>"
                    /\ CompleteDocument(html_file'.content, Fragments')
               ELSE html_file'.content = html_file.content ]_vars

C14_Witness ==
    /\ pc = "ready" /\ Len(trace) = 1 /\ cfg.output_html_filepath
    /\ ~cfg.realtime_output
    /\ html_file.exists /\ html_file.content = <<>>

\* C15: construction with an exit code that is a non-positive integer fails
\* with ValueError, with one that is neither an integer nor None with
\* TypeError, and with a positive integer or None succeeds; a failed
\* construction has created no file, written nothing and emitted no heading.
C15_InvalidExitCode ==
    /\ [](pc # "new" =>
            LET code == cfg.exit_code_critical
                expected == CASE code.type = "int" /\ code.val <= 0 -> "ValueError"
                              [] code.type \notin {"int", "None"} -> "TypeError"
                              [] OTHER -> ""
            IN /\ exc = expected
               /\ pc = "failed" <=> expected # ""
               /\ pc = "failed" =>
                     /\ stdout = <<>> /\ log_console = <<>> /\ log_html = <<>>
                     /\ trace = <<>>)
    /\ [][pc' = "failed" => html_file' = html_file]_vars

C15_Witness ==
    /\ pc = "failed" /\ exc = "TypeError"
    /\ cfg.output_html_filepath /\ ~html_file.exists
    /\ stdout = <<>>

\* ------------------------------------------------------------ log(): C16, C17

\* The call a step made, if it made one.
Called(op) ==
    /\ Len(trace') = Len(trace) + 1
    /\ trace'[Len(trace')].op = op

\* What the method named level does when called directly from main.
Direct(level, s, sys_exit, exit_code) ==
    CASE level = "critical" -> critical(s, sys_exit, exit_code)
      [] level = "debug" -> [state |-> debug(s), exits |-> FALSE, arg |-> None, caller |-> ""]
      [] level = "info" -> [state |-> info(s), exits |-> FALSE, arg |-> None, caller |-> ""]
      [] level = "notice" -> [state |-> notice(s), exits |-> FALSE, arg |-> None, caller |-> ""]
      [] level = "warning" -> [state |-> warning(s), exits |-> FALSE, arg |-> None, caller |-> ""]
      [] level = "error" -> [state |-> error(s), exits |-> FALSE, arg |-> None, caller |-> ""]

\* C16: a log() call with one of the six levels, given as LogLevel member or
\* as its string, leaves the Logger, the console, the HTML file and the
\* process exactly as the method of that level called with the same
\* arguments from the same state: same transcripts, file, annotations, caller
\* named, termination and exit argument, and no exception.
C16_LogDispatch ==
    [][ (Called("log") /\ trace'[Len(trace')].level \in LevelNames) =>
            LET t == trace'[Len(trace')]
                d == Direct(t.level, self, t.sys_exit, t.exit_code)
            IN /\ self' = d.state
               /\ pc' = (IF d.exits THEN "exited" ELSE "ready")
               /\ d.exits => exit_arg' = d.arg
               /\ ~d.exits => exit_arg' = exit_arg
               /\ result'.caller = d.caller
               /\ exc' = "" ]_vars

C16_Witness ==
    /\ Len(trace) = 3 /\ trace[2].op = "section" /\ trace[2].group
    /\ trace[3].op = "log" /\ trace[3].level = "critical"
    /\ trace[3].exit_code = Some(2)
    /\ cfg.github_console /\ cfg.realtime_output
    /\ pc = "exited" /\ exit_arg = Some(2)
    /\ result.caller = "main"
    /\ Has(StdoutOf(3), IsFatalAnnotation)

\* C17: a log() call with a level string that names none of the six levels
\* raises ValueError and changes nothing: transcripts, console, HTML file,
\* section path, current section and group depth keep their values, and the
\* process goes on.
C17_UnknownLevel ==
    [][ (Called("log") /\ trace'[Len(trace')].level \notin LevelNames) =>
            /\ exc' = "ValueError"
            /\ self' = self
            /\ pc' = pc
            /\ exit_arg' = exit_arg ]_vars

C17_Witness ==
    /\ Len(trace) = 3 /\ trace[2].op = "section"
    /\ trace[3].op = "log" /\ trace[3].level = "fatal"
    /\ exc = "ValueError" /\ pc = "ready"
    /\ Len(log_console) = trace[2].con /\ Len(log_html) = trace[2].html
    /\ Len(stdout) = trace[2].out

\* ------------------------------------------------------ annotations: C18, C19

\* A line that is a CI annotation directive: "::{kind} ...::{message}" with
\* kind notice, warning or error, or the debug directive "::debug:: {message}".
IsDebugDirective(line) == line.prefix = "::debug::"
IsAnnotationDirective(line) == IsDirective(line) \/ IsDebugDirective(line)
Directives(seq) == SelectSeq(seq, IsAnnotationDirective)

\* The method call k ran (the level, for a log() call).
Method(k) == IF trace[k].op = "log" THEN trace[k].level ELSE trace[k].op

\* Call k put exactly one directive on standard output, of this kind, and none
\* into the console transcript.
OneDirective(k, kind) ==
    /\ Len(Directives(StdoutOf(k))) = 1
    /\ IsDirective(Directives(StdoutOf(k))[1])
    /\ Directives(StdoutOf(k))[1].level = kind
    /\ Directives(ConsoleOf(k)) = <<>>

NoDirective(k) ==
    /\ Directives(StdoutOf(k)) = <<>>
    /\ Directives(ConsoleOf(k)) = <<>>

\* C18 (as claimed): with annotation emission on, notice(), warning() and
\* error() each emit exactly one directive of their own kind, critical()
\* exactly one of kind error, and debug() and info() emit none.
C18_AnnotationPerLevel_Claimed ==
    cfg.github_console =>
        \A k \in 2..Len(trace) :
            /\ Method(k) \in {"notice", "warning", "error"} => OneDirective(k, Method(k))
            /\ Method(k) = "critical" => OneDirective(k, "error")
            /\ Method(k) \in {"debug", "info"} => NoDirective(k)

\* C18 (amended): with annotation emission on, notice(), warning() and
\* error() each emit exactly one directive of their own kind, critical()
\* exactly one of kind error, and info() none; debug() emits no directive
\* beside its entry, but its console entry is itself written as a debug
\* directive, into the transcript and, when echoed, onto the console. With
\* annotation emission off no call emits a directive.
C18_AnnotationPerLevel ==
    \A k \in 2..Len(trace) :
        IF cfg.github_console
        THEN /\ Method(k) \in {"notice", "warning", "error"} => OneDirective(k, Method(k))
             /\ Method(k) = "critical" => OneDirective(k, "error")
             /\ Method(k) = "info" => NoDirective(k)
             /\ Method(k) = "debug" =>
                    /\ Len(ConsoleOf(k)) = 1
                    /\ IsDebugEntry(ConsoleOf(k)[1]) /\ IsDebugDirective(ConsoleOf(k)[1])
                    /\ StdoutOf(k) = (IF cfg.realtime_output THEN ConsoleOf(k) ELSE <<>>)
        ELSE Method(k) \in LevelNames => NoDirective(k)

C18_Witness ==
    /\ cfg.github_console /\ ~cfg.realtime_output
    /\ Len(trace) = 3
    /\ trace[2].op = "notice" /\ OneDirective(2, "notice")
    /\ trace[3].op = "debug" /\ IsDebugDirective(ConsoleOf(3)[1]) /\ StdoutOf(3) = <<>>

\* The numbers of the sections open after call k, the root first; a
\* section_end() closes the innermost one, and none when only the root is open.
RECURSIVE OpenSections(_)
OpenSections(k) ==
    IF k = 1 THEN <<Number(1)>>
    ELSE LET open == OpenSections(k - 1)
         IN CASE trace[k].op = "section" -> Append(open, Number(k))
              [] trace[k].op = "section_end" -> (IF Len(open) > 1 THEN Front(open) ELSE open)
              [] OTHER -> open

\* C19 (as claimed): the title of the annotation of a notice(), warning() or
\* error() call is the numbered title of the innermost section open at the
\* time of the call, after any sequence of section() and section_end() calls.
C19_AnnotationTitle ==
    cfg.github_console =>
        \A k \in 2..Len(trace) :
            trace[k].op \in {"notice", "warning", "error"} =>
                \A n \in 1..Len(StdoutOf(k)) :
                    IsDirective(StdoutOf(k)[n]) =>
                        StdoutOf(k)[n].num = OpenSections(k)[Len(OpenSections(k))]

\* ------------------------------------------------------ entry formatting: C20

\* sub occurs in seq, its characters next to each other.
Contains(seq, sub) ==
    \E i \in 0..(Len(seq) - Len(sub)) : SubSeq(seq, i + 1, i + Len(sub)) = sub

Formatted == result.fn = "_format_entry"
Renderings ==
    {result.output[1].output_console, result.output[1].output_html,
     result.output[1].github_annotation_msg}

HasSeparator(r) == Contains(r, <<": ">>)
HasTitleBlock(r) == Contains(r, result.title) /\ HasSeparator(r)
HasCodeBlock(r) == Contains(r, result.code)

\* C20 (as claimed): for every level, with an empty title and empty code none
\* of the console text, the HTML fragment and the annotation body contains a
\* title separator; with a non-empty title and non-empty code all three
\* contain a title block and the code block.
C20_Renderings_Claimed ==
    Formatted =>
        /\ (result.title = <<>> /\ result.code = <<>>)
                => \A r \in Renderings : ~HasSeparator(r)
        /\ (result.title # <<>> /\ result.code # <<>>)
                => \A r \in Renderings : HasTitleBlock(r) /\ HasCodeBlock(r)

\* C20 (amended): for every level, with an empty title and empty code none of
\* the three renderings contains a title separator; with a non-empty title
\* and non-empty code the console text and the HTML fragment contain a title
\* block and the code block, and the annotation body is the title, the
\* separator and the message, without the code.
C20_Renderings ==
    Formatted =>
        LET out == result.output[1]
        IN /\ (result.title = <<>> /\ result.code = <<>>)
                => \A r \in Renderings : ~HasSeparator(r)
           /\ (result.title # <<>> /\ result.code # <<>>)
                => /\ HasTitleBlock(out.output_console) /\ HasCodeBlock(out.output_console)
                   /\ HasTitleBlock(out.output_html) /\ HasCodeBlock(out.output_html)
                   /\ out.github_annotation_msg = result.title \o <<": ">> \o result.message
                   /\ ~HasCodeBlock(out.github_annotation_msg)

C20_Witness ==
    /\ Formatted
    /\ result.level = "error"
    /\ result.title = <<"t">> /\ result.message = <<"x">> /\ result.code = <<"c">>
    /\ result.output[1].github_annotation_msg = <<"t", ": ", "x">>
    /\ result.output[1].output_console
          = <<"error_symbol", " ", "sgr(error)", "t", "sgr(reset)", ": ", "x", "\n", "c">>

\* ------------------------------------------------------ github_log: C21

\* The key=value pairs of the provided arguments among the first n, in order.
RECURSIVE ProvidedPairs(_, _)
ProvidedPairs(args, n) ==
    IF n = 0 THEN <<>>
    ELSE LET name == GithubArgNames[n][1]
             provided == IF name \in {"title", "filename"} THEN args[name] # <<>>
                         ELSE args[name] # 0
             value == IF name \in {"title", "filename"} THEN args[name]
                      ELSE Digits(args[name])
         IN IF provided
            THEN Append(ProvidedPairs(args, n - 1), <<GithubArgNames[n][2], "=">> \o value)
            ELSE ProvidedPairs(args, n - 1)

\* The texts of seq with a comma between each two.
RECURSIVE JoinComma(_)
JoinComma(seq) ==
    IF Len(seq) = 0 THEN <<>>
    ELSE IF Len(seq) = 1 THEN seq[1]
    ELSE JoinComma(Front(seq)) \o <<",">> \o seq[Len(seq)]

\* Where the final "::" of a directive stands: before the message.
FinalColons(out, args) ==
    Len(out) - Len(args.message) - (IF args.message_type = "debug" THEN 1 ELSE 0)

\* C21: github_log builds "::{kind} {key=value,...}::{message}": for notice,
\* warning and error exactly the provided ones of title, file, line, endLine,
\* col, endColumn, in that order with commas between, no comma or space before
\* the final "::", and "::{kind}::{message}" when none is provided; for debug
\* never any metadata, the result being "::debug:: {message}".
C21_Directive ==
    result.fn = "github_log" =>
        LET args == result.args
            out == result.output
            pairs == ProvidedPairs(args, Len(GithubArgNames))
        IN /\ args.message_type = "debug"
                => out = <<"::", "debug", "::", " ">> \o args.message
           /\ (args.message_type # "debug" /\ pairs = <<>>)
                => out = <<"::", args.message_type, "::">> \o args.message
           /\ (args.message_type # "debug" /\ pairs # <<>>)
                => out = <<"::", args.message_type, " ">> \o JoinComma(pairs)
                            \o <<"::">> \o args.message
           /\ out[FinalColons(out, args)] = "::"
           /\ out[FinalColons(out, args) - 1] \notin {",", " "}

C21_Witness ==
    /\ result.fn = "github_log"
    /\ result.args.message_type = "notice"
    /\ result.args.title = <<"T">> /\ result.args.filename = <<>>
    /\ result.args.line_start = 1 /\ result.args.line_end = 0
    /\ result.args.column_start = 0 /\ result.args.column_end = 1
    /\ result.args.message = <<"m">>
    /\ result.output = <<"::", "notice", " ", "title", "=", "T", ",", "line", "=", "1", ",",
                         "endColumn", "=", "1", "::", "m">>

\* ------------------------------------------------ reading the environment: C22, C23

\* C22 (as claimed): whenever io.read_environment_variable returns a value
\* other than None for a requested type among str, bool, int, float, list and
\* dict, the value is an instance of that type; otherwise the call ends with
\* an exception or with the logger's exit.
C22_TypedValues ==
    (result.fn = "io.read_environment_variable" /\ result.typ \in SupportedTypes) =>
        /\ result.outcome \in {"return", "raise", "exit"}
        /\ (result.outcome = "return" /\ ~IsNone(result.value))
                => isinstance(Val(result.value), result.typ)
        /\ result.outcome = "raise" => exc # ""

\* C23 (as claimed): environment_variable.read raises the input-variable type
\* error for an unsupported typ without consulting the environment; returns
\* None for an unset variable and the raw string for typ str; for another typ
\* it raises the deserialization error when json.loads fails and the
\* type-mismatch error when the deserialized value has a type other than typ,
\* so that a returned value always has the type typ.
C23_TypedRead ==
    result.fn = "environment_variable.read" =>
        LET typ == result.typ
            value == environ["INPUT"]
        IN /\ typ \notin SupportedTypes
                => result.exc = "ActionManInputVariableTypeError" /\ ~result.consulted
           /\ (typ \in SupportedTypes /\ IsNone(value))
                => result.exc = "" /\ IsNone(result.value)
           /\ (typ = "str" /\ ~IsNone(value))
                => result.exc = "" /\ result.value = Some(PyValue("str", Val(value)))
           /\ (typ \in SupportedTypes \ {"str"} /\ ~IsNone(value))
                => LET loaded == json_loads(Val(value))
                   IN /\ loaded.exc # ""
                          => result.exc = "ActionManInputVariableDeserializationError"
                      /\ (loaded.exc = "" /\ loaded.value.type # typ)
                          => result.exc = "ActionManInputVariableTypeMismatchError"
                      /\ (loaded.exc = "" /\ loaded.value.type = typ)
                          => result.exc = "" /\ result.value = Some(loaded.value)
           /\ (result.exc = "" /\ ~IsNone(result.value)) => Val(result.value).type = typ

\* ------------------------------------------------ writing variables: C24

\* C24: environment_variable.write and step_output.write raise the
\* output-variable type error for a value of unsupported type and the
\* serialization error for one json.dumps rejects, leaving every file as it
\* was; otherwise they append the returned string and a newline to the end of
\* their file, creating it if needed and keeping all earlier content, and
\* touch no other file.
C24_WriteAppends ==
    [][ Called("write") =>
            LET t == trace'[Len(trace')]
                path == Val(FILEPATH[t.module].path)
                supported == t.value.type \in {"str", "dict", "list", "tuple", "bool",
                                               "int", "float", "NoneType"}
                serializable == t.value.type = "str" \/ json_dumps(t.value).exc = ""
            IN /\ ~supported => t.exc = "ActionManOutputVariableTypeError"
               /\ (supported /\ ~serializable)
                    => t.exc = "ActionManOutputVariableSerializationError"
               /\ (supported /\ serializable) => t.exc = ""
               /\ t.exc # "" => files' = files
               /\ t.exc = "" =>
                    /\ t.output # <<>> /\ result'.output = t.output
                    /\ files'[path].exists
                    /\ files'[path].content = files[path].content \o t.output \o <<"\n">>
                    /\ \A other \in Paths \ {path} : files'[other] = files[other] ]_vars

C24_Witness ==
    /\ Len(trace) = 1 /\ trace[1].op = "write" /\ trace[1].module = "environment_variable"
    /\ trace[1].value = PyValue("tuple", "(1,)")
    /\ files["/env"].content = EarlierContent \o <<"NAME", "=", "[1]", "\n">>
    /\ result.output = <<"NAME", "=", "[1]">>

\* ------------------------------------------------ step summary: C25

\* C25: when GITHUB_STEP_SUMMARY was not set, each of filepath(), read(),
\* append(), write() and remove() raises ActionManGitHubError and creates,
\* modifies and deletes no file.
C25_SummaryUnset ==
    [][ (IsNone(environ["GITHUB_STEP_SUMMARY"]) /\ Len(trace') = Len(trace) + 1
            /\ trace'[Len(trace')].op \in SummaryOps) =>
            /\ exc' = "ActionManGitHubError"
            /\ trace'[Len(trace')].exc = "ActionManGitHubError"
            /\ IsNone(result'.value)
            /\ files' = files ]_vars

C25_Witness ==
    /\ IsNone(environ["GITHUB_STEP_SUMMARY"])
    /\ Len(trace) = 2 /\ trace[1].op = "write" /\ trace[2].op = "remove"
    /\ exc = "ActionManGitHubError"
    /\ files["/summary"].exists /\ files["/summary"].content = EarlierContent

\* ------------------------------------------------ order within critical(): C26

\* A critical() call is under way, or was the last call made.
InCritical ==
    /\ result.fn = "critical"
    /\ \/ \E n \in 1..Len(CriticalSteps) : pc = CriticalSteps[n]
       \/ trace[Len(trace)].op = "critical"

\* The steps of the critical() call made so far, and whether each has run.
Done(step) == InCritical /\ \E n \in 1..Len(result.steps) : result.steps[n] = step

\* What the call has added to the transcripts and to standard output.
CriticalConsole == SubSeq(log_console, Len(result.entered.log_console) + 1, Len(log_console))
CriticalHtml == SubSeq(log_html, Len(result.entered.log_html) + 1, Len(log_html))
CriticalStdout == SubSeq(stdout, Len(result.entered.stdout) + 1, Len(stdout))

IsUserOutput(line) == line.kind = "user"

\* The position of the first line of seq satisfying P, 0 if there is none.
First(seq, P(_)) ==
    IF Has(seq, P) THEN CHOOSE n \in 1..Len(seq) : P(seq[n]) /\ \A m \in 1..(n-1) : ~P(seq[m])
    ELSE 0

\* C26: within a critical() call the streams are flushed first, then the entry
\* is appended to both transcripts (echoed and written to the HTML file when
\* realtime output is on), then the error annotation is emitted, and only
\* then, if exit is enabled, the process terminates: when it terminates the
\* entry is in both transcripts.
C26_CriticalOrder ==
    InCritical =>
        /\ Done("submit") => Done("flush") /\ ~result.buffered
        /\ Done("annotate") => Done("submit")
        /\ Done("exit") => Done("annotate")
        /\ pc = "exited" => Done("exit")
        /\ ~Done("submit") => CriticalConsole = <<>> /\ CriticalHtml = <<>>
        /\ ~Done("annotate") => ~Has(CriticalStdout, IsFatalAnnotation)
        /\ Done("submit") =>
              /\ Has(CriticalConsole, IsCriticalEntry)
              /\ CriticalHtml = <<format_entry("critical").html>>
              /\ (cfg.realtime_output /\ cfg.output_html_filepath)
                    => html_file.content = html_log
              /\ cfg.realtime_output => Has(CriticalStdout, IsCriticalEntry)
        /\ (Done("annotate") /\ cfg.github_console) =>
              /\ Has(CriticalStdout, IsFatalAnnotation)
              /\ cfg.realtime_output =>
                    First(CriticalStdout, IsCriticalEntry)
                        < First(CriticalStdout, IsFatalAnnotation)
        /\ (Done("submit") /\ Has(CriticalStdout, IsUserOutput) /\ cfg.realtime_output) =>
              First(CriticalStdout, IsUserOutput) < First(CriticalStdout, IsCriticalEntry)
        /\ pc = "exited" =>
              /\ Has(console_log, IsCriticalEntry)
              /\ Has(html_log, IsCriticalHtml)
              /\ self = critical(IF Has(CriticalStdout, IsUserOutput)
                                 THEN print(result.entered, UserOutput)
                                 ELSE result.entered,
                                 result.sys_exit, result.exit_code).state

C26_Witness ==
    /\ InCritical /\ pc = "exited"
    /\ cfg.realtime_output /\ cfg.github_console /\ cfg.output_html_filepath
    /\ result.steps = <<"flush", "submit", "close", "annotate", "exit">>
    /\ Len(CriticalStdout) = 4
    /\ IsUserOutput(CriticalStdout[1]) /\ IsCriticalEntry(CriticalStdout[2])
    /\ IsGroupEnd(CriticalStdout[3]) /\ IsFatalAnnotation(CriticalStdout[4])

\* ------------------------------------------------ concurrent writers: C27

\* The fragments the finished write cycles wrote, in the order they finished.
RECURSIVE WrittenUpTo(_)
WrittenUpTo(k) ==
    IF k = 0 THEN <<>>
    ELSE IF trace[k].op = "write" THEN WrittenUpTo(k - 1) \o trace[k].html
    ELSE WrittenUpTo(k - 1)
Written == WrittenUpTo(Len(trace))

\* No write cycle began while another one was under way.
NeverInterleaved == \A k \in 1..Len(trace) : ~trace[k].overlaps

\* C27: when the write cycles on the shared HTML file never interleave, the
\* file is the head, every fragment written, in order, and the closing tags
\* exactly once, at the end; when open, seek and write of two cycles
\* interleave, a state is reachable in which the file is corrupted (the
\* witness below).
C27_SerialWritersKeepFile ==
    NeverInterleaved => CompleteDocument(html_file.content, Written)

\* Two interleaved cycles have finished and a fragment is lost or the closing
\* tags do not stand exactly once at the end.
C27_Witness ==
    /\ \A w \in Writers : writers[w].step = "idle"
    /\ Count("write") = 2
    /\ ~NeverInterleaved
    /\ ~CompleteDocument(html_file.content, Written)
    /\ \/ Len(html_file.content) < Len(html_head) + Len(Written) + Len(html_file_end)
       \/ Len(SelectSeq(html_file.content, IsClosingTag)) # Len(html_file_end)

\* ------------------------------------------------------------ the root: C28

\* The headings of the HTML transcript that carry a one-component number.
IsTopLevelHeading(e) == e.kind = "<h>" /\ Len(e.num) = 1
TopLevelHeadings == SelectSeq(log_html, IsTopLevelHeading)

\* C28: once the Logger is constructed the section path holds at least two
\* counters, its first counter is the configured initial section number, and
\* the transcript holds exactly one top-level heading, the root's, whatever
\* section() and section_end() calls were made.
C28_RootKept ==
    pc = "ready" =>
        /\ Len(next_section_num) >= 2
        /\ next_section_num[1] = cfg.initial_section_number
        /\ Len(TopLevelHeadings) = 1
        /\ TopLevelHeadings[1].num = <<cfg.initial_section_number>>
        /\ \A k \in 2..Len(trace) : Len(trace[k].path) >= 2

\* More section_end() calls than section() calls, back at the root's level,
\* with a root number other than the default.
C28_Witness ==
    /\ pc = "ready"
    /\ cfg.initial_section_number # 1
    /\ Count("section") >= 1
    /\ Count("section_end") > Count("section")
    /\ trace[Len(trace)].op = "section_end"
    /\ Len(next_section_num) = 2

\* ------------------------------------------- what level methods leave: C29

SectionState == <<next_section_num, curr_section, open_grouped_sections>>

LevelOps == {"debug", "info", "notice", "warning", "error"}
SectionOps == {"__init__", "section", "section_end"}

\* The operation a step performed, "" when it appended nothing to the trace.
StepOp == IF Len(trace') = Len(trace) + 1 THEN trace'[Len(trace')].op ELSE ""

\* C29: a step of debug(), info(), notice(), warning(), error(), or of a
\* critical() that returns, leaves the section path, the current section
\* title and the group depth as they were; a step that changes any of the
\* three is a step of __init__, section() or section_end().
C29_LevelsKeepSections ==
    [][ /\ (StepOp \in LevelOps \/ (StepOp = "critical" /\ pc' = "ready"))
            => UNCHANGED SectionState
        /\ ~(UNCHANGED SectionState) => StepOp \in SectionOps ]_vars

\* critical() has returned inside an open grouped section and the three are
\* what section() left.
C29_Witness ==
    /\ Len(trace) = 3
    /\ trace[2].op = "section" /\ trace[2].group
    /\ trace[3].op = "critical" /\ pc = "ready"
    /\ open_grouped_sections = 1
    /\ trace[2].groups = 1
    /\ next_section_num = trace[2].path
    /\ curr_section = trace[2].curr

\* ---------------------------------------------- file and accessor: C30

\* C30: with realtime output on and an HTML path given, once the Logger is
\* constructed the file's content is what the html_log accessor returns,
\* after every operation.
C30_FileIsHtmlLog ==
    (cfg.realtime_output /\ cfg.output_html_filepath /\ pc \in {"ready", "exited"})
        => html_file.exists /\ html_file.content = html_log

\* section() and then an exiting critical() have written, and file and
\* accessor agree.
C30_Witness ==
    /\ cfg.realtime_output /\ cfg.output_html_filepath
    /\ pc = "exited"
    /\ Len(trace) = 3 /\ trace[2].op = "section" /\ trace[3].op = "critical"
    /\ Len(log_html) = Len(html_head) + 3
    /\ html_file.content = html_log

\* ----------------------------------------------- realtime output off: C31

\* C31 (as claimed): with realtime output off, no Logger operation writes to
\* standard output or to the HTML file.
C31_SilentWithoutRealtime ==
    (~cfg.realtime_output /\ pc # "new") =>
        /\ stdout = <<>>
        /\ html_file.content = <<>>

\* -------------------------------------------- annotation emission off: C32

IsMarker(line) == IsGroupStart(line) \/ IsGroupEnd(line)
IsMarkerOrDirective(line) == IsMarker(line) \/ IsAnnotationDirective(line)

\* C32: with annotation emission off the group depth is 0 in every state and
\* neither the console transcript nor standard output holds a '::group::' or
\* '::endgroup::' marker or a '::debug', '::notice', '::warning' or '::error'
\* directive, whatever operations were called.
C32_PlainWithoutGithub ==
    ~cfg.github_console =>
        /\ open_grouped_sections = 0
        /\ \A k \in 1..Len(trace) : trace[k].groups = 0
        /\ ~Has(log_console, IsMarkerOrDirective)
        /\ ~Has(stdout, IsMarkerOrDirective)

\* section(group=True), debug() and an exiting critical() have run with
\* annotation emission off and everything echoed.
C32_Witness ==
    /\ ~cfg.github_console /\ cfg.realtime_output /\ cfg.console_print_debug
    /\ Len(trace) = 4
    /\ trace[2].op = "section" /\ trace[2].group
    /\ trace[3].op = "debug"
    /\ trace[4].op = "critical" /\ pc = "exited"
    /\ Len(stdout) = 4 /\ Len(log_console) = 4

\* ------------------------------------------------------ exit status: C33

\* C33 (as claimed): when a critical() call given no exit_code terminates the
\* process, the exit status is a positive integer, whatever sys_exit was and
\* whether the default exit code is a positive integer or None.
C33_ExitStatusPositive ==
    \A k \in 2..Len(trace) :
        (IsCritical(k) /\ trace[k].pc = "exited" /\ IsNone(trace[k].exit_code)) =>
            /\ ~IsNone(exit_arg)
            /\ ExitStatus(exit_arg) > 0

\* --------------------------------- sections around a read: C34

\* C34 (as claimed): io.read_environment_variable called with a logger whose
\* critical exit is disabled leaves the logger's nesting depth and group
\* depth as they were before the call, whether it returns a value, returns
\* None or raises.
C34_SectionsBalanced ==
    LET k == Len(trace)
    IN (/\ result.fn = "io.read_environment_variable" /\ result.logger
        /\ IsNone(default_exit_code)
        /\ k >= 2 /\ trace[k].op = "read_environment_variable") =>
           /\ result.outcome \in {"return", "raise"}
           /\ Len(trace[k].path) = Len(trace[k-1].path)
           /\ trace[k].groups = trace[k-1].groups

\* ------------------------------------- arguments from the environment: C35

IsArgsCall == result.fn = "io.read_function_args_from_environment_variables"

\* The parameters the call reads.
ReadParams ==
    {k \in 1..Len(result.function) : result.function[k].name \notin result.ignore_params}

IsSet(k) == ~IsNone(environ[upper(result.function[k].name)])
CastOf(k) == cast(Val(environ[upper(result.function[k].name)]), result.function[k].typ)
HasDefault(k) == ~IsNone(result.function[k].default)

\* The argument returned for parameter k: <<value>>, or <<>> when there is none.
ArgOf(k) ==
    LET items == {n \in 1..Len(result.args) : result.args[n].name = result.function[k].name}
    IN IF items = {} THEN None ELSE Some(result.args[CHOOSE n \in items : TRUE].value)

\* C35 (as claimed): for every parameter the call reads, the returned
\* argument is the cast value when the variable is set and the default value
\* when the variable is unset and the parameter has a default; the call fails
\* only for an unset variable of a parameter without default (or for a value
\* that cannot be cast).
C35_ArgsOrDefaults ==
    IsArgsCall =>
        /\ result.outcome = "return" =>
              \A k \in ReadParams :
                  ArgOf(k) = (IF IsSet(k) THEN Some(CastOf(k).value)
                              ELSE result.function[k].default)
        /\ result.outcome # "return" =>
              \E k \in ReadParams :
                  \/ ~IsSet(k) /\ ~HasDefault(k)
                  \/ IsSet(k) /\ CastOf(k).exc # ""

====
